---- MODULE Spec2Model ----
(***************************************************************************)
(* Model of the beads-vscode extension (src/src/extension.ts):             *)
(* BeadsTreeDataProvider's refresh coordinator, file watcher and debounce  *)
(* timer, the CLI mutation handlers, the open-panel registry and the       *)
(* manual sort overlay with drag and drop.                                 *)
(*                                                                         *)
(* The extension host is single threaded: every action below is one        *)
(* handler run to its next await on real I/O (a macrotask together with    *)
(* the microtasks it queues).  External processes and file reads are the   *)
(* environment; they read the data source at a moment of their own and     *)
(* their completion is delivered to the extension in a later step.         *)
(***************************************************************************)
EXTENDS Integers, Sequences, FiniteSets, TLC

(* ------------------------------ bounds -------------------------------- *)
MaxIssues == 1        \* issue ids are 1..MaxIssues
MaxRev    == 1        \* revisions of the external data source
MaxLoads  == 2        \* slots for loadBeads invocations in flight
MaxTimers == 2        \* distinct setTimeout handles
MaxOps    == 1        \* concurrently running CLI mutation handlers
MaxPanels == 2        \* detail panels ever created
MaxSortIds == 3       \* issues of the drag-and-drop list
MaxDrag   == 1        \* rows dragged at once
MaxRaw    == 3        \* records of a data source
MaxRefLen == 4        \* characters of an external reference
MaxNodes  == 3        \* nodes of the dependency graph
MaxEdges  == 2        \* edges of the dependency graph
MaxMoves  == 2        \* mousemove events of one gesture

(* -------------------------- program constants -------------------------- *)
DebounceTicks == 2    \* the 200 ms debounce window, in ticks of 100 ms

IssueIds == 1..MaxIssues
LoadIds  == 1..MaxLoads
Handles  == 1..MaxTimers
OpIds    == 1..MaxOps
PanelIds == 1..MaxPanels
SortIds  == 1..MaxSortIds
Revs     == 0..MaxRev

Off  == 0 - 1         \* a timer handle that is not scheduled, a map without the key
None == "none"        \* undefined
NoDocument == [filePath |-> None, rev |-> Off]     \* this.document undefined
NoSnap == [ids |-> {}, rev |-> Off]                \* nothing read yet
NoArg == [target |-> 0, dragged |-> <<>>, before |-> <<>>]
NoSaved == [defined |-> FALSE, order |-> [id \in SortIds |-> Off]]
NoHtml == [item |-> [id |-> 0, rev |-> Off, status |-> None], all |-> <<>>]

VARIABLES
  (* BeadsTreeDataProvider fields *)
  items,              \* private items: BeadItemData[]
  document,           \* private document: BeadsDocument | undefined
  watchedFilePath,    \* watchedFilePath / fileWatcher
  openPanels,         \* Map<string, WebviewPanel>: id -> panel handle, 0 = no entry
  searchQuery,        \* private searchQuery
  refreshInProgress,
  pendingRefresh,
  debounceTimer,      \* handle of the last setTimeout, 0 = undefined
  manualSortOrder,    \* Map<issueId, sortIndex>: id -> position, Off = no entry
  savedSortOrder,     \* workspaceState 'beads.manualSortOrder'
  (* environment *)
  store,              \* the external data source: [ids, rev]
  projectRoot,        \* resolveProjectRoot(config) # undefined
  loads,              \* loadBeads invocations in flight
  timers,             \* setTimeout handles: remaining ticks, Off = not scheduled
  treeDirty,          \* the tree view has a change notification to answer
  ops,                \* CLI mutation handlers
  panels,             \* webview panels ever created
  (* observation *)
  last,               \* the handler that ran last: [op, out, refreshCalls,
                      \*   loadCalls, threw, forDelete, arg]: its name, the
                      \*   notifications it showed, the refresh() and loadBeads()
                      \*   calls it made, whether a refresh() it awaited threw,
                      \*   whether it answered onDidDelete's change notification,
                      \*   and its arguments where a property needs them
  burst,              \* the watcher's change/create events: [since, owed, many]:
                      \*   ticks since the last event (DebounceTicks: that long ago
                      \*   or never), bursts begun minus debounced refresh() calls
                      \*   made, and whether the last burst had several events
  unserved,           \* a refresh() call was made and no loadBeads() since
  deleteArmed,        \* onDidDelete emptied items, the list is still the one it
                      \*   left and its change notification is not yet answered
  (* pure functions *)
  calc                \* one call of a function of the program: [fn, in, out,
                      \*   done]: its name, its arguments, and its result once
                      \*   it has returned

providerVars == <<items, document, watchedFilePath, openPanels, searchQuery,
                  refreshInProgress, pendingRefresh, debounceTimer,
                  manualSortOrder, savedSortOrder>>
envVars == <<store, projectRoot, loads, timers, treeDirty, ops, panels>>
obsVars == <<last, burst, unserved, deleteArmed>>
progVars == <<providerVars, envVars, obsVars>>
vars == <<progVars, calc>>

\* no function call is being followed
NoCalc == [fn |-> None, done |-> FALSE]

(* ------------------------------ helpers -------------------------------- *)
Min(a, b) == IF a < b THEN a ELSE b

RECURSIVE SortedSeq(_)
\* ids in ascending order: the natural sort of ids that differ in their number
SortedSeq(S) ==
  IF S = {} THEN <<>>
  ELSE LET m == CHOOSE x \in S : \A y \in S : x <= y
       IN <<m>> \o SortedSeq(S \ {m})

SeqIds(s) == {s[i].id : i \in 1..Len(s)}

\* the status field of record id in revision rev of the data source
StatusOf(id, rev) == IF (id + rev) % 2 = 0 THEN "open" ELSE "closed"

\* loadBeads / loadBeadsFromFile: records normalized and sorted by id
LoadedItems(snap) ==
  LET ids == SortedSeq(snap.ids)
  IN [i \in 1..Len(ids) |->
        [id |-> ids[i], rev |-> snap.rev, status |-> StatusOf(ids[i], snap.rev)]]

LoadedDocument(snap, path) == [filePath |-> path, rev |-> snap.rev]

FreeLoad == [phase |-> "free", snap |-> NoSnap, awaiter |-> 0]

ErrRefresh == "error: Unable to refresh beads list"


ErrProjectRoot == "error: Unable to resolve project root"
ErrMutation == "error: Failed to update status / add label / remove label"
InfoMutation == "info: Updated status / Added label / Removed label"

\* a step of the environment: no handler of the extension ran (deferred: see
\* CommitArg; staleLoad: onDidDelete ran while the load now in flight was in
\* flight)
Env(name) == [op |-> name, out |-> <<>>, refreshCalls |-> 0, loadCalls |-> 0,
              threw |-> FALSE, forDelete |-> FALSE, arg |-> NoArg, deferred |-> 0, coalesced |-> 0,
              staleLoad |-> FALSE]

IdleOp == "idle"
NoPanel == [state |-> "unused", bead |-> 0, html |-> NoHtml]

\* getBeadDetailHtml(item, allItems): the content shown for item
DetailHtml(item, allItems) == [item |-> item, all |-> allItems]

ItemById(list, id) == list[CHOOSE i \in 1..Len(list) : list[i].id = id]

(* ------------------------- refresh coordinator ------------------------- *)
(* A coordinator value c carries the fields refresh() reads and writes     *)
(* while one handler runs: rip = refreshInProgress, pend = pendingRefresh, *)
(* loads = loadBeads invocations in flight, out = notifications shown,     *)
(* rcalls, calls = refresh() and loadBeads() invocations made, exc = an     *)
(* exception is propagating, resumed / thrown = the callers whose          *)
(* `await this.refresh()` has returned / has thrown (0: a caller that does *)
(* not use the result), served = the last refresh() call was followed by a *)
(* loadBeads() call, full = no slot was left for a further invocation (the *)
(* handler is then not taken).                                             *)
Coord == [rip |-> refreshInProgress, pend |-> pendingRefresh, loads |-> loads,
          out |-> <<>>, rcalls |-> 0, calls |-> 0, exc |-> FALSE,
          resumed |-> {}, thrown |-> {}, served |-> ~unserved, full |-> FALSE]

FreeSlots(c) == {l \in LoadIds : c.loads[l].phase = "free"}
InFlight == {l \in LoadIds : loads[l].phase # "free"}

\* refresh() without its guard: every call starts a load
RefreshGuardOff(c) == FALSE

\* refresh(), line 111: a refresh is already in progress
RefreshGuard(c) == c.rip

\* a refresh() that returns without recording the request
DeferRefreshDrop(c) == c

\* refresh(), lines 112-113: record the request and return
DeferRefresh(c) == [c EXCEPT !.pend = TRUE]

\* loadBeads / loadBeadsFromFile throw: lines 559, 606, 609, 633
Throw(c) == [c EXCEPT !.exc = TRUE]

\* a catch block that swallows the error without telling the user
CatchRefreshSilent(c) == [c EXCEPT !.exc = FALSE]

\* refresh(), lines 127-129: the catch block
CatchRefresh(c) ==
  IF c.exc THEN [c EXCEPT !.exc = FALSE, !.out = Append(@, ErrRefresh)] ELSE c

\* a finally block that forgets the recorded request
PendingGuardOff(c) == FALSE

\* refresh(), line 134: another refresh was requested meanwhile
PendingGuard(c) == c.pend

RECURSIVE CallRefresh(_, _)
RECURSIVE FinishRefresh(_, _)

\* refresh(), lines 109-118, called by awaiter aw (0: nobody awaits the result)
CallRefresh(c0, aw) ==
  LET c == [c0 EXCEPT !.rcalls = @ + 1, !.served = FALSE] IN
  IF RefreshGuard(c)
  THEN [DeferRefresh(c) EXCEPT !.resumed = @ \cup {aw}]
  ELSE LET c1 == [c EXCEPT !.rip = TRUE, !.calls = @ + 1, !.served = TRUE]
       IN IF ~projectRoot
          THEN \* loadBeads throws at once (line 559)
               FinishRefresh(CatchRefresh(Throw(c1)), aw)
          ELSE IF FreeSlots(c1) = {}
          THEN [c1 EXCEPT !.full = TRUE]
          ELSE LET l == CHOOSE x \in FreeSlots(c1) : \A y \in FreeSlots(c1) : x <= y
               IN [c1 EXCEPT !.loads[l] = [phase |-> "cli", snap |-> NoSnap, awaiter |-> aw]]

\* refresh(), lines 130-138: the finally block, then the caller resumes
FinishRefresh(c, aw) ==
  LET c1 == [c EXCEPT !.rip = FALSE]
      c2 == IF PendingGuard(c1)
            THEN \* `void this.refresh()`
                 CallRefresh([c1 EXCEPT !.pend = FALSE, !.exc = FALSE], 0)
            ELSE c1
  IN IF c1.exc
     THEN [c2 EXCEPT !.exc = FALSE, !.thrown = @ \cup {aw}]
     ELSE [c2 EXCEPT !.resumed = @ \cup {aw}]

RECURSIVE Notes(_, _)
\* one notification for each handler of S
Notes(S, note) ==
  IF S = {} THEN <<>>
  ELSE LET o == CHOOSE x \in S : \A y \in S : x <= y
       IN <<note>> \o Notes(S \ {o}, note)

\* the deferred refresh() calls are counted up to this number
MaxDeferred == 2

\* what a handler leaves behind: the coordinator fields (deferred: the calls of
\* refresh() recorded in pendingRefresh since it was last false, coalesced:
\* those the handler took out of pendingRefresh); the mutation handlers
\* whose `await this.refresh()` returned show their success message and end
\* (line 255), those for which it threw run their catch block (lines 256-258)
CommitArg(c, base, name, arg) ==
  LET done == c.resumed \ {0}
      failed == c.thrown \ {0}
  IN /\ ~c.full
     /\ refreshInProgress' = c.rip
     /\ pendingRefresh' = c.pend
     /\ loads' = c.loads
     /\ ops' = [o \in OpIds |-> IF o \in done \cup failed THEN IdleOp ELSE base[o]]
     /\ unserved' = ~c.served
     /\ last' = [op |-> name,
                 out |-> c.out \o Notes(done, InfoMutation) \o Notes(failed, ErrMutation),
                 refreshCalls |-> c.rcalls, loadCalls |-> c.calls,
                 threw |-> c.thrown # {},
                 forDelete |-> name = "GetChildren" /\ deleteArmed, arg |-> arg,
                 deferred |-> IF ~c.pend THEN 0
                              ELSE Min(last.deferred + (c.rcalls - c.calls), MaxDeferred),
                 coalesced |-> IF ~c.pend THEN last.deferred ELSE 0,
                 staleLoad |-> IF name = "WatcherDelete" THEN InFlight # {}
                               ELSE /\ last.staleLoad
                                    /\ c.calls = 0
                                    /\ \E l \in LoadIds : c.loads[l].phase # "free"]

Commit(c, base, name) == CommitArg(c, base, name, NoArg)

sortVars == <<searchQuery, manualSortOrder, savedSortOrder>>
dataVars == <<items, document, watchedFilePath>>
panelVars == <<openPanels, panels>>

(* -------------------------------- Init --------------------------------- *)
ProgInit ==
  /\ items = <<>>
  /\ document = NoDocument
  /\ watchedFilePath = None
  /\ openPanels = [i \in IssueIds |-> 0]
  /\ searchQuery = ""
  /\ refreshInProgress = FALSE
  /\ pendingRefresh = FALSE
  /\ debounceTimer = 0
  /\ manualSortOrder = [i \in SortIds |-> Off]
  /\ savedSortOrder = NoSaved
  /\ store \in [ids : SUBSET IssueIds, rev : {0}]
  /\ projectRoot \in BOOLEAN
  /\ loads = [l \in LoadIds |-> FreeLoad]
  /\ timers = [h \in Handles |-> Off]
  /\ treeDirty = TRUE
  /\ ops = [o \in OpIds |-> IdleOp]
  /\ panels = [p \in PanelIds |-> NoPanel]
  /\ last = Env("init")
  /\ burst = [since |-> DebounceTicks, owed |-> 0, many |-> FALSE]
  /\ unserved = FALSE
  /\ deleteArmed = FALSE

Init == ProgInit /\ calc = NoCalc

(* ------------------------------ handlers ------------------------------- *)
\* the beads.refresh command, and activate()'s `void provider.refresh()`
RefreshCommand ==
  /\ Commit(CallRefresh(Coord, 0), ops, "RefreshCommand")
  /\ UNCHANGED <<calc, dataVars, panelVars, sortVars, debounceTimer, store, projectRoot,
                 timers, treeDirty, burst, deleteArmed>>

\* getChildren(), lines 95-107, called by the tree view for its root
GetChildren ==
  /\ treeDirty
  /\ treeDirty' = FALSE
  /\ deleteArmed' = FALSE
  /\ IF Len(items) = 0
     THEN Commit(CallRefresh(Coord, 0), ops, "GetChildren")
     ELSE Commit(Coord, ops, "GetChildren")
  /\ UNCHANGED <<calc, dataVars, panelVars, sortVars, debounceTimer, store, projectRoot,
                 timers, burst>>

\* debouncedRefresh without clearTimeout: the earlier timer stays scheduled
ClearDebounceOff(t, h) == t

\* clearTimeout(this.debounceTimer), lines 318-320
ClearDebounce(t, h) == IF h # 0 THEN [t EXCEPT ![h] = Off] ELSE t

\* watcher.onDidChange / onDidCreate -> debouncedRefresh(), lines 317-324.
\* A timer that is due runs before an event that arrives later is handled.
WatcherChange ==
  /\ watchedFilePath # None
  /\ \A h \in Handles : timers[h] # 0
  /\ LET cleared == ClearDebounce(timers, debounceTimer)
         free == {h \in Handles : cleared[h] = Off}
     IN /\ free # {}
        /\ LET h == CHOOSE x \in free : \A y \in free : x <= y
           IN /\ timers' = [cleared EXCEPT ![h] = DebounceTicks]
              /\ debounceTimer' = h
  /\ burst' = IF burst.since < DebounceTicks
               THEN [since |-> 0, owed |-> burst.owed, many |-> TRUE]
               ELSE [since |-> 0, owed |-> burst.owed + 1, many |-> FALSE]
  /\ Commit(Coord, ops, "WatcherChange")
  /\ UNCHANGED <<calc, dataVars, panelVars, sortVars, store, projectRoot, treeDirty,
                 deleteArmed>>

\* the debounce timer expires: `void this.refresh()`, lines 321-323
TimerFire(h) ==
  /\ timers[h] = 0
  /\ timers' = [timers EXCEPT ![h] = Off]
  /\ burst' = [burst EXCEPT !.owed = @ - 1]
  /\ Commit(CallRefresh(Coord, 0), ops, "TimerFire")
  /\ UNCHANGED <<calc, dataVars, panelVars, sortVars, debounceTimer, store, projectRoot,
                 treeDirty, deleteArmed>>

\* 100 ms pass; a due timer fires before more time passes
Tick ==
  /\ \A h \in Handles : timers[h] # 0
  /\ (\E h \in Handles : timers[h] # Off) \/ burst.since < DebounceTicks
  /\ timers' = [h \in Handles |-> IF timers[h] = Off THEN Off ELSE timers[h] - 1]
  /\ burst' = [burst EXCEPT !.since = Min(DebounceTicks, @ + 1)]
  /\ last' = [Env("Tick") EXCEPT !.deferred = last.deferred,
                                  !.staleLoad = last.staleLoad]
  /\ UNCHANGED <<calc, providerVars, store, projectRoot, loads, treeDirty, ops, panels,
                 unserved, deleteArmed>>

\* an onDidDelete handler that also forgets the manual order
WatcherDeleteForgets ==
  /\ watchedFilePath # None
  /\ items' = <<>>
  /\ document' = NoDocument
  /\ treeDirty' = TRUE
  /\ deleteArmed' = TRUE
  /\ manualSortOrder' = [id \in SortIds |-> Off]
  /\ Commit(Coord, ops, "WatcherDelete")
  /\ UNCHANGED <<calc, watchedFilePath, panelVars, searchQuery, savedSortOrder, debounceTimer,
                 store, projectRoot, timers, burst>>

\* watcher.onDidDelete, lines 340-344
WatcherDelete ==
  /\ watchedFilePath # None
  /\ items' = <<>>
  /\ document' = NoDocument
  /\ treeDirty' = TRUE
  /\ deleteArmed' = TRUE
  /\ Commit(Coord, ops, "WatcherDelete")
  /\ UNCHANGED <<calc, watchedFilePath, panelVars, sortVars, debounceTimer, store,
                 projectRoot, timers, burst>>


(* ------------------------------ loadBeads ------------------------------ *)
\* the `bd export` process reads the data source (lines 567-570)
CliRead(l) ==
  /\ loads[l].phase = "cli"
  /\ loads' = [loads EXCEPT ![l] = [@ EXCEPT !.phase = "cliRead", !.snap = store]]
  /\ last' = [Env("CliRead") EXCEPT !.deferred = last.deferred,
                                  !.staleLoad = last.staleLoad]
  /\ UNCHANGED <<calc, providerVars, store, projectRoot, timers, treeDirty, ops, panels,
                 burst, unserved, deleteArmed>>

\* fs.readFile of the data file reads the data source (line 619)
FileRead(l) ==
  /\ loads[l].phase = "file"
  /\ loads' = [loads EXCEPT ![l] = [@ EXCEPT !.phase = "fileRead", !.snap = store]]
  /\ last' = [Env("FileRead") EXCEPT !.deferred = last.deferred,
                                  !.staleLoad = last.staleLoad]
  /\ UNCHANGED <<calc, providerVars, store, projectRoot, timers, treeDirty, ops, panels,
                 burst, unserved, deleteArmed>>

\* loadBeads without the fallback: the CLI error reaches refresh()
OnCliErrorThrow(c, l) ==
  FinishRefresh(CatchRefresh(Throw([c EXCEPT !.loads[l] = FreeLoad])), c.loads[l].awaiter)

\* loadBeads, lines 594-598: the CLI path threw, read the data file instead
OnCliError(c, l) == [c EXCEPT !.loads[l] = [@ EXCEPT !.phase = "file", !.snap = NoSnap]]

\* findBdCommand or execFile failed (binary not found, non-zero exit)
CliFail(l) ==
  /\ loads[l].phase = "cli"
  /\ Commit(OnCliError(Coord, l), ops, "CliFail")
  /\ UNCHANGED <<calc, dataVars, panelVars, sortVars, debounceTimer, store, projectRoot,
                 timers, treeDirty, burst, deleteArmed>>

\* a panel refresh that closes the registered panels whose issue is gone
RefreshOpenPanelsClose(ps, registry, list) ==
  [p \in PanelIds |->
     IF \E id \in IssueIds : registry[id] = p /\ id \notin SeqIds(list)
     THEN [ps[p] EXCEPT !.state = "closed"]
     ELSE ps[p]]

\* registerPanel's registry after refreshOpenPanels, lines 149-156: the panels
\* of the registry whose issue is in the new list get new content
RefreshOpenPanels(ps, registry, list) ==
  [p \in PanelIds |->
     IF \E id \in IssueIds : registry[id] = p /\ id \in SeqIds(list)
     THEN LET id == CHOOSE i \in IssueIds : registry[i] = p
          IN [ps[p] EXCEPT !.html = DetailHtml(ItemById(list, id), list)]
     ELSE ps[p]]

\* ensureWatcher(filePath), lines 326-353
EnsureWatcher(watched, filePath) == IF watched = filePath THEN watched ELSE filePath

\* refresh(), lines 118-126 and 130-138: loadBeads returned result
ApplyLoad(l, snap, path, name) ==
  /\ items' = LoadedItems(snap)
  /\ document' = LoadedDocument(snap, path)
  /\ watchedFilePath' = EnsureWatcher(watchedFilePath, path)
  /\ treeDirty' = TRUE
  /\ panels' = RefreshOpenPanels(panels, openPanels, LoadedItems(snap))
  /\ deleteArmed' = FALSE
  /\ Commit(FinishRefresh([Coord EXCEPT !.loads[l] = FreeLoad], loads[l].awaiter),
            ops, name)
  /\ UNCHANGED <<calc, openPanels, sortVars, debounceTimer, store, projectRoot, timers,
                 burst>>

\* refresh(), lines 127-138: loadBeads threw
FailLoad(l, name) ==
  /\ Commit(FinishRefresh(CatchRefresh(Throw([Coord EXCEPT !.loads[l] = FreeLoad])),
                          loads[l].awaiter),
            ops, name)
  /\ UNCHANGED <<calc, dataVars, panelVars, sortVars, debounceTimer, store, projectRoot,
                 timers, treeDirty, burst, deleteArmed>>

\* `bd export` exited with code 0: parse its output (lines 572-593)
CliDeliver(l, parses) ==
  /\ loads[l].phase = "cliRead"
  /\ IF parses
     THEN ApplyLoad(l, loads[l].snap, "db", "CliLoaded")
     ELSE /\ Commit(OnCliError(Coord, l), ops, "CliFail")
          /\ UNCHANGED <<calc, dataVars, panelVars, sortVars, debounceTimer, store,
                         projectRoot, timers, treeDirty, burst, deleteArmed>>

\* the data file was read: parse it (lines 609-615, 621-636)
FileDeliver(l, parses) ==
  /\ loads[l].phase = "fileRead"
  /\ IF parses
     THEN ApplyLoad(l, loads[l].snap, "file", "FileLoaded")
     ELSE FailLoad(l, "LoadFailed")

\* the data file cannot be resolved or read (lines 605-609)
FileFail(l) ==
  /\ loads[l].phase = "file"
  /\ FailLoad(l, "LoadFailed")

(* ------------------- updateStatus / addLabel / removeLabel ------------- *)
(* The three handlers differ in the bd arguments and the message texts     *)
(* only; ops[o] is the place handler o has reached: "idle", "cli" (the bd  *)
(* command runs) or "awaitRefresh" (inside `await this.refresh()`).        *)
\* lines 241-249: the handler starts; without a project root it ends at once
MutStart(o) ==
  /\ ops[o] = "idle"
  /\ IF projectRoot
     THEN Commit(Coord, [ops EXCEPT ![o] = "cli"], "MutStart")
     ELSE Commit([Coord EXCEPT !.out = <<ErrProjectRoot>>], ops, "MutStart")
  /\ UNCHANGED <<calc, dataVars, panelVars, sortVars, debounceTimer, store, projectRoot,
                 timers, treeDirty, burst, deleteArmed>>

\* a handler that refreshes the view after a failed command as well
MutationFailedRefresh(c) == CallRefresh([c EXCEPT !.out = Append(@, ErrMutation)], 0)

\* lines 256-259: the catch block of the handler
MutationFailed(c) == [c EXCEPT !.out = Append(@, ErrMutation)]

\* findBdCommand or the bd command failed
MutCliFail(o) ==
  /\ ops[o] = "cli"
  /\ Commit(MutationFailed(Coord), [ops EXCEPT ![o] = IdleOp], "MutCliFail")
  /\ UNCHANGED <<calc, dataVars, panelVars, sortVars, debounceTimer, store, projectRoot,
                 timers, treeDirty, burst, deleteArmed>>

\* lines 253-255: the bd command changed the data source; `await this.refresh()`
MutCliOk(o) ==
  /\ ops[o] = "cli"
  /\ store.rev < MaxRev
  /\ store' = [store EXCEPT !.rev = @ + 1]
  /\ Commit(CallRefresh(Coord, o), [ops EXCEPT ![o] = "awaitRefresh"], "MutCliOk")
  /\ UNCHANGED <<calc, dataVars, panelVars, sortVars, debounceTimer, projectRoot,
                 timers, treeDirty, burst, deleteArmed>>

(* ----------------------------- environment ----------------------------- *)
\* another process rewrites the data source
StoreWrite(ids) ==
  /\ store.rev < MaxRev
  /\ store' = [ids |-> ids, rev |-> store.rev + 1]
  /\ last' = [Env("StoreWrite") EXCEPT !.deferred = last.deferred,
                                  !.staleLoad = last.staleLoad]
  /\ UNCHANGED <<calc, providerVars, projectRoot, loads, timers, treeDirty, ops, panels,
                 burst, unserved, deleteArmed>>

\* a workspace folder is opened or closed, or beads.projectRoot is edited
ConfigChange ==
  /\ projectRoot' = ~projectRoot
  /\ last' = [Env("ConfigChange") EXCEPT !.deferred = last.deferred,
                                  !.staleLoad = last.staleLoad]
  /\ UNCHANGED <<calc, providerVars, store, loads, timers, treeDirty, ops, panels,
                 burst, unserved, deleteArmed>>

(* ----------------------------- detail panels --------------------------- *)
\* registerPanel, line 142
RegisterPanel(registry, id, p) == [registry EXCEPT ![id] = p]

\* a dispose handler that leaves the registry alone
PanelDisposedKeep(registry, id) == registry

\* registerPanel, lines 144-146: the panel's onDidDispose handler
PanelDisposed(registry, id) == [registry EXCEPT ![id] = 0]

\* openBead(item, provider), lines 1817-1833: the user opens an issue of the tree
OpenBead(id) ==
  /\ id \in SeqIds(items)
  /\ \E p \in PanelIds : panels[p].state = "unused"
  /\ LET p == CHOOSE x \in PanelIds :
                /\ panels[x].state = "unused"
                /\ \A y \in PanelIds : panels[y].state = "unused" => x <= y
     IN /\ panels' = [panels EXCEPT ![p] = [state |-> "open", bead |-> id,
                         html |-> DetailHtml(ItemById(items, id), items)]]
        /\ openPanels' = RegisterPanel(openPanels, id, p)
  /\ Commit(Coord, ops, "OpenBead")
  /\ UNCHANGED <<calc, dataVars, sortVars, debounceTimer, store, projectRoot, timers,
                 treeDirty, burst, deleteArmed>>

\* the user closes a detail panel
ClosePanel(p) ==
  /\ panels[p].state = "open"
  /\ panels' = [panels EXCEPT ![p].state = "closed"]
  /\ openPanels' = PanelDisposed(openPanels, panels[p].bead)
  /\ Commit(Coord, ops, "ClosePanel")
  /\ UNCHANGED <<calc, dataVars, sortVars, debounceTimer, store, projectRoot, timers,
                 treeDirty, burst, deleteArmed>>

(* -------------------------- manual sort overlay ------------------------ *)
\* filterItems, lines 158-184.  The searchable fields of the records modelled
\* are the id ("T-<n>"), the title (the id again) and the status; the queries
\* drawn are "open" and "closed", which are contained in no id and in exactly
\* the status equal to them.
Matches(item, query) == item.status = query

FilterItems(list, query) ==
  IF query = "" THEN list ELSE SelectSeq(list, LAMBDA it : Matches(it, query))

MapSize(order) == Cardinality({id \in SortIds : order[id] # Off})

\* a sort that leaves the list as it is
SortByOrderKeep(list, order) == list

RECURSIVE SortByOrder(_, _)
\* Array.prototype.sort by order, stable: ties keep their order in list
SortByOrder(list, order) ==
  IF Len(list) = 0 THEN <<>>
  ELSE LET i == CHOOSE k \in 1..Len(list) :
                  \A j \in 1..Len(list) :
                     \/ order[list[k].id] < order[list[j].id]
                     \/ order[list[k].id] = order[list[j].id] /\ k <= j
           rest == [j \in 1..(Len(list) - 1) |-> IF j < i THEN list[j] ELSE list[j + 1]]
       IN <<list[i]>> \o SortByOrder(rest, order)

\* applySortOrder, lines 443-470
ApplySortOrder(list, order) ==
  IF MapSize(order) = 0 THEN list
  ELSE SortByOrder(SelectSeq(list, LAMBDA it : order[it.id] # Off), order)
       \o SelectSeq(list, LAMBDA it : order[it.id] = Off)

IdsOf(list) == [i \in 1..Len(list) |-> list[i].id]

\* what the tree shows: getChildren, lines 104-106
Displayed == IdsOf(ApplySortOrder(FilterItems(items, searchQuery), manualSortOrder))

IndexOf(seq, x) == IF \E i \in 1..Len(seq) : seq[i] = x
                   THEN (CHOOSE i \in 1..Len(seq) : seq[i] = x) - 1
                   ELSE -1

\* Array.prototype.slice(from, to) on 0-based indices
Slice(seq, from, to) ==
  LET a == Min(from, Len(seq))
      b == Min(to, Len(seq))
  IN IF b <= a THEN <<>> ELSE SubSeq(seq, a + 1, b)

Range(seq) == {seq[i] : i \in 1..Len(seq)}

\* handleDrop, lines 387-398: -1 when the target is not in the list
DropIndex(current, target) ==
  IF target # 0 THEN IndexOf(current, target) ELSE Len(current)

\* handleDrop, lines 400-409
NewOrder(current, dragged, dropIndex) ==
  LET remaining == SelectSeq(current, LAMBDA id : id \notin Range(dragged))
  IN Slice(remaining, 0, dropIndex) \o dragged \o Slice(remaining, dropIndex, Len(remaining))

\* handleDrop, lines 411-414
SetPositions(order, newOrder) ==
  [id \in SortIds |->
     IF id \in Range(newOrder)
     THEN (CHOOSE i \in 1..Len(newOrder) :
             newOrder[i] = id /\ \A j \in 1..Len(newOrder) : newOrder[j] = id => j <= i) - 1
     ELSE order[id]]

\* sequences of distinct elements of S, of length 1..n
RECURSIVE DistinctSeqs(_, _)
DistinctSeqs(S, n) ==
  IF n = 0 THEN {}
  ELSE {<<x>> : x \in S}
       \cup UNION {{Append(q, x) : x \in S \ Range(q)} : q \in DistinctSeqs(S, n - 1)}

\* handleDrop(target, dataTransfer), lines 373-419: the items dragged are rows
\* of the tree; target = 0 is the drop on the empty area below the rows
HandleDrop(target, dragged) ==
  LET current == Displayed
      dropIndex == DropIndex(current, target)
  IN /\ IF dropIndex = -1
        THEN UNCHANGED <<calc, manualSortOrder, savedSortOrder, treeDirty>>
        ELSE /\ manualSortOrder' =
                  SetPositions(manualSortOrder, NewOrder(current, dragged, dropIndex))
             /\ savedSortOrder' = [defined |-> TRUE, order |-> manualSortOrder']
             /\ treeDirty' = TRUE
     /\ CommitArg(Coord, ops, "HandleDrop",
                  [target |-> target, dragged |-> dragged, before |-> current])
     /\ UNCHANGED <<calc, dataVars, panelVars, searchQuery, debounceTimer, store,
                    projectRoot, timers, burst, deleteArmed>>

\* search(), lines 186-204, with the query the user typed (already trimmed)
Search(query) ==
  /\ searchQuery' = query
  /\ treeDirty' = TRUE
  /\ CommitArg([Coord EXCEPT !.out = IF query # "" THEN <<"info: Found">> ELSE <<>>],
               ops, "Search", NoArg)
  /\ UNCHANGED <<calc, dataVars, panelVars, manualSortOrder, savedSortOrder, debounceTimer,
                 store, projectRoot, timers, burst, deleteArmed>>

\* clearSearch(), lines 206-210
ClearSearch ==
  /\ searchQuery' = ""
  /\ treeDirty' = TRUE
  /\ Commit([Coord EXCEPT !.out = <<"info: Search cleared">>], ops, "ClearSearch")
  /\ UNCHANGED <<calc, dataVars, panelVars, manualSortOrder, savedSortOrder, debounceTimer,
                 store, projectRoot, timers, burst, deleteArmed>>

\* a clear() that leaves the entries
ClearMapKeep(order) == order

\* this.manualSortOrder.clear(), line 437
ClearMap(order) == [id \in SortIds |-> Off]

\* clearSortOrder(), lines 436-441
ClearSortOrder ==
  /\ manualSortOrder' = ClearMap(manualSortOrder)
  /\ savedSortOrder' = NoSaved
  /\ treeDirty' = TRUE
  /\ CommitArg([Coord EXCEPT !.out = <<"info: Manual sort order cleared">>], ops,
               "ClearSortOrder", [NoArg EXCEPT !.before = Displayed])
  /\ UNCHANGED <<calc, dataVars, panelVars, searchQuery, debounceTimer, store,
                 projectRoot, timers, burst, deleteArmed>>

(* ---------------------------- specification ---------------------------- *)
LoadStep ==
  \/ \E l \in LoadIds : CliRead(l)
  \/ \E l \in LoadIds : CliFail(l)
  \/ \E l \in LoadIds, parses \in BOOLEAN : CliDeliver(l, parses)
  \/ \E l \in LoadIds : FileRead(l)
  \/ \E l \in LoadIds : FileFail(l)
  \/ \E l \in LoadIds, parses \in BOOLEAN : FileDeliver(l, parses)

\* every caller of refresh(): commands, the tree view, the debounce timer, the
\* mutation handlers and the finally block of refresh() itself
Next ==
  \/ RefreshCommand
  \/ GetChildren
  \/ WatcherChange
  \/ \E h \in Handles : TimerFire(h)
  \/ Tick
  \/ LoadStep
  \/ \E o \in OpIds : MutStart(o)
  \/ \E o \in OpIds : MutCliFail(o)
  \/ \E o \in OpIds : MutCliOk(o)

Spec == Init /\ [][Next]_vars

\* refresh, the tree view and the data source
NextRefresh ==
  \/ RefreshCommand
  \/ GetChildren
  \/ WatcherDelete
  \/ LoadStep
  \/ \E ids \in SUBSET IssueIds : StoreWrite(ids)
  \/ ConfigChange

SpecRefresh == Init /\ [][NextRefresh]_vars

\* the watcher's change events and the debounce timer
NextDebounce ==
  \/ RefreshCommand
  \/ WatcherChange
  \/ \E h \in Handles : TimerFire(h)
  \/ Tick
  \/ LoadStep

SpecDebounce == Init /\ [][NextDebounce]_vars

\* the mutation handlers
NextMutation ==
  \/ RefreshCommand
  \/ LoadStep
  \/ \E o \in OpIds : MutStart(o)
  \/ \E o \in OpIds : MutCliFail(o)
  \/ \E o \in OpIds : MutCliOk(o)
  \/ ConfigChange

SpecMutation == Init /\ [][NextMutation]_vars

\* the detail panels
NextPanels ==
  \/ RefreshCommand
  \/ LoadStep
  \/ \E ids \in SUBSET IssueIds : StoreWrite(ids)
  \/ \E id \in IssueIds : OpenBead(id)
  \/ \E p \in PanelIds : ClosePanel(p)

SpecPanels == Init /\ [][NextPanels]_vars

\* the tree view and the loads alone: no command, no watcher event, no
\* mutation; the view asks for its rows whenever it was told of a change, and
\* a load in flight ends
NextTreeView ==
  \/ GetChildren
  \/ LoadStep
  \/ \E ids \in SUBSET IssueIds : StoreWrite(ids)

FairTreeView ==
  /\ Init /\ [][NextTreeView]_vars
  /\ WF_vars(GetChildren)
  /\ WF_vars(LoadStep)

\* the data source is rewritten more than once: an issue is removed and
\* written again
MaxRewrites == 2

StoreRewrite(ids) ==
  /\ store.rev < MaxRewrites
  /\ store' = [ids |-> ids, rev |-> store.rev + 1]
  /\ last' = [Env("StoreWrite") EXCEPT !.deferred = last.deferred,
                                  !.staleLoad = last.staleLoad]
  /\ UNCHANGED <<calc, providerVars, projectRoot, loads, timers, treeDirty, ops, panels,
                 burst, unserved, deleteArmed>>

NextStalePanels ==
  \/ RefreshCommand
  \/ LoadStep
  \/ \E ids \in SUBSET IssueIds : StoreRewrite(ids)
  \/ \E id \in IssueIds : OpenBead(id)
  \/ \E p \in PanelIds : ClosePanel(p)

SpecStalePanels == Init /\ [][NextStalePanels]_vars

\* the tree after the first load of a data source with the issues 1..MaxSortIds
\* or some of them
InitSort ==
  /\ store \in [ids : SUBSET SortIds, rev : Revs]
  /\ items = LoadedItems(store)
  /\ document = LoadedDocument(store, "db")
  /\ watchedFilePath = "db"
  /\ openPanels = [i \in IssueIds |-> 0]
  /\ searchQuery = ""
  /\ refreshInProgress = FALSE
  /\ pendingRefresh = FALSE
  /\ debounceTimer = 0
  /\ manualSortOrder = [i \in SortIds |-> Off]
  /\ savedSortOrder = NoSaved
  /\ projectRoot = TRUE
  /\ loads = [l \in LoadIds |-> FreeLoad]
  /\ timers = [h \in Handles |-> Off]
  /\ treeDirty = TRUE
  /\ ops = [o \in OpIds |-> IdleOp]
  /\ panels = [p \in PanelIds |-> NoPanel]
  /\ last = Env("load")
  /\ burst = [since |-> DebounceTicks, owed |-> 0, many |-> FALSE]
  /\ unserved = FALSE
  /\ deleteArmed = FALSE
  /\ calc = NoCalc

Queries == {"open", "closed"}

NextSort ==
  \/ \E target \in {0} \cup SortIds, dragged \in DistinctSeqs(Range(Displayed), MaxDrag) :
        HandleDrop(target, dragged)
  \/ \E query \in Queries : Search(query)
  \/ ClearSearch
  \/ ClearSortOrder

SpecSort == InitSort /\ [][NextSort]_vars

\* the manual order, the search filter and reloads of a data source that loses
\* issues
NextOverlay ==
  \/ \E target \in {0} \cup SortIds, dragged \in DistinctSeqs(Range(Displayed), MaxDrag) :
        HandleDrop(target, dragged)
  \/ \E query \in Queries : Search(query)
  \/ ClearSearch
  \/ ClearSortOrder
  \/ RefreshCommand
  \/ LoadStep
  \/ WatcherDelete
  \/ \E id \in store.ids : StoreWrite(store.ids \ {id})

\* the tree after the first load of a data source with the issues 1..MaxSortIds
InitOverlay == InitSort /\ store.ids = SortIds

SpecOverlay == InitOverlay /\ [][NextOverlay]_vars

\* the load completes once it is in flight: the bd process exits, the file
\* read ends, and the completion is delivered
FairRefresh == SpecRefresh /\ WF_vars(LoadStep)

(* ----------------------------- naturalSort ----------------------------- *)
(* An id is a sequence of characters, each a string of length one.          *)
MantissaBits == 53    \* a Number holds integers exactly up to 2^53

DigitChars == {"0", "1", "2", "3", "4", "5", "6", "7", "8", "9"}

DigitVal(ch) ==
  CASE ch = "0" -> 0 [] ch = "1" -> 1 [] ch = "2" -> 2 [] ch = "3" -> 3
    [] ch = "4" -> 4 [] ch = "5" -> 5 [] ch = "6" -> 6 [] ch = "7" -> 7
    [] ch = "8" -> 8 [] ch = "9" -> 9

\* the number of leading characters of str that are (isDigit) or are not digits
RECURSIVE RunLen(_, _)
RunLen(str, isDigit) ==
  IF str = <<>> \/ ((Head(str) \in DigitChars) # isDigit) THEN 0
  ELSE 1 + RunLen(Tail(str), isDigit)

RECURSIVE SplitDigits(_)
\* id.split(/(\d+)/): the text before the first digit run, the run, and the
\* split of what follows it; a string without digits is its only part
SplitDigits(str) ==
  LET t == RunLen(str, FALSE)
      afterText == SubSeq(str, t + 1, Len(str))
      d == RunLen(afterText, TRUE)
  IN IF afterText = <<>> THEN <<SubSeq(str, 1, t)>>
     ELSE <<SubSeq(str, 1, t), SubSeq(afterText, 1, d)>>
          \o SplitDigits(SubSeq(afterText, d + 1, Len(afterText)))

\* a decimal numeral divided by two: quotient numeral and remainder
RECURSIVE HalveFrom(_, _, _)
HalveFrom(digits, i, carry) ==
  IF i > Len(digits) THEN [q |-> <<>>, r |-> carry]
  ELSE LET cur == carry * 10 + digits[i]
           rest == HalveFrom(digits, i + 1, cur % 2)
       IN [q |-> <<cur \div 2>> \o rest.q, r |-> rest.r]

RECURSIVE BitsOf(_)
\* the binary numeral, most significant bit first, of a decimal numeral
BitsOf(digits) ==
  IF \A i \in 1..Len(digits) : digits[i] = 0 THEN <<>>
  ELSE LET h == HalveFrom(digits, 1, 0) IN Append(BitsOf(h.q), h.r)

Zeros(n) == [i \in 1..n |-> 0]

\* a binary numeral plus one
Incr(bits) ==
  IF \A i \in 1..Len(bits) : bits[i] = 1 THEN <<1>> \o Zeros(Len(bits))
  ELSE LET k == CHOOSE i \in 1..Len(bits) :
                  bits[i] = 0 /\ \A j \in (i + 1)..Len(bits) : bits[j] = 1
       IN SubSeq(bits, 1, k - 1) \o <<1>> \o Zeros(Len(bits) - k)

\* the Number nearest to an integer, ties to even, as a binary numeral
RoundToNumber(bits) ==
  IF Len(bits) <= MantissaBits THEN bits
  ELSE LET head == SubSeq(bits, 1, MantissaBits)
           rest == SubSeq(bits, MantissaBits + 1, Len(bits))
           sticky == \E i \in 2..Len(rest) : rest[i] = 1
           up == rest[1] = 1 /\ (sticky \/ head[MantissaBits] = 1)
       IN (IF up THEN Incr(head) ELSE head) \o Zeros(Len(rest))

\* parseInt(part, 10) of a part of the split: NaN for a part that does not
\* start with a digit, else the Number nearest to the numeral
ParseInt(part) ==
  IF part = <<>> \/ Head(part) \notin DigitChars THEN [nan |-> TRUE, bits |-> <<>>]
  ELSE [nan |-> FALSE,
        bits |-> RoundToNumber(BitsOf([i \in 1..Len(part) |-> DigitVal(part[i])]))]

IsNaN(num) == num.nan

RECURSIVE CompareSeq(_, _)
\* the sign of the lexicographic comparison of two sequences of numbers
CompareSeq(x, y) ==
  IF x = <<>> /\ y = <<>> THEN 0
  ELSE IF x = <<>> THEN 0 - 1
  ELSE IF y = <<>> THEN 1
  ELSE IF Head(x) < Head(y) THEN 0 - 1
  ELSE IF Head(x) > Head(y) THEN 1
  ELSE CompareSeq(Tail(x), Tail(y))

\* the sign of x - y for two binary numerals without leading zeros
CompareBits(x, y) ==
  IF Len(x) < Len(y) THEN 0 - 1
  ELSE IF Len(x) > Len(y) THEN 1
  ELSE CompareSeq(x, y)

\* the collation order of the characters used: punctuation, digits, letters
CharRank(ch) ==
  IF ch = "-" THEN 0 ELSE IF ch \in DigitChars THEN 1 + DigitVal(ch) ELSE 11

\* the sign of aPart.localeCompare(bPart)
LocaleCompare(x, y) ==
  CompareSeq([i \in 1..Len(x) |-> CharRank(x[i])], [i \in 1..Len(y) |-> CharRank(y[i])])

RECURSIVE NaturalSortFrom(_, _, _)
\* naturalSort, lines 527-550: the loop from part i on, then the length rule;
\* the sign of the comparator's result
NaturalSortFrom(aParts, bParts, i) ==
  IF i > Min(Len(aParts), Len(bParts))
  THEN IF Len(aParts) < Len(bParts) THEN 0 - 1
       ELSE IF Len(aParts) > Len(bParts) THEN 1 ELSE 0
  ELSE LET aNum == ParseInt(aParts[i])
           bNum == ParseInt(bParts[i])
       IN IF ~IsNaN(aNum) /\ ~IsNaN(bNum)
          THEN IF aNum # bNum THEN CompareBits(aNum.bits, bNum.bits)
               ELSE NaturalSortFrom(aParts, bParts, i + 1)
          ELSE IF aParts[i] # bParts[i] THEN LocaleCompare(aParts[i], bParts[i])
               ELSE NaturalSortFrom(aParts, bParts, i + 1)

\* naturalSort(a, b), lines 523-551, on the ids of a and b
NaturalSort(a, b) == NaturalSortFrom(SplitDigits(a), SplitDigits(b), 1)

\* x put into a list sorted by naturalSort, after the elements that do not follow it
RECURSIVE InsertSorted(_, _)
InsertSorted(sorted, x) ==
  IF sorted = <<>> THEN <<x>>
  ELSE IF NaturalSort(x, Head(sorted)) < 0 THEN <<x>> \o sorted
  ELSE <<Head(sorted)>> \o InsertSorted(Tail(sorted), x)

RECURSIVE SortItems(_)
\* items.sort(naturalSort), lines 590 and 612: a stable sort
SortItems(list) ==
  IF list = <<>> THEN <<>>
  ELSE InsertSorted(SortItems(SubSeq(list, 1, Len(list) - 1)), list[Len(list)])

\* a function is called on an input that was drawn and returns
Return(fn, out) ==
  /\ calc.fn = fn
  /\ ~calc.done
  /\ calc' = [calc EXCEPT !.out = out, !.done = TRUE]
  /\ UNCHANGED progVars

\* no handler runs while a function call is followed
Quiet == ProgInit /\ store.ids = {} /\ projectRoot

TId(numeral) == <<"T", "-">> \o numeral

\* ids of the form T-<n>: small numbers, a leading zero, and the two
\* neighbours 2^53 and 2^53 + 1
NaturalIds ==
  { TId(<<"1">>), TId(<<"2">>), TId(<<"1", "0">>), TId(<<"0", "2">>),
    TId(<<"9", "0", "0", "7", "1", "9", "9", "2", "5", "4", "7", "4", "0", "9", "9", "2">>),
    TId(<<"9", "0", "0", "7", "1", "9", "9", "2", "5", "4", "7", "4", "0", "9", "9", "3">>) }

\* the records of a data source, in the order in which they are stored
RawLists == UNION {[1..n -> NaturalIds] : n \in 0..MaxRaw}

InitNaturalSort ==
  /\ Quiet
  /\ calc \in [fn : {"sort"}, in : RawLists, out : {<<>>}, done : {FALSE}]

\* loadBeads, line 590 / loadBeadsFromFile, line 612
SortLoaded == Return("sort", SortItems(calc.in))

NextNaturalSort == SortLoaded

SpecNaturalSort == InitNaturalSort /\ [][NextNaturalSort]_vars

(* ---------------------------- normalizeBead ---------------------------- *)
(* A string is a sequence of characters.  A JSON value is [t, v]: its type  *)
(* ("absent" for a key the object does not have) and String(value).  An     *)
(* optional string is [def, v]: def = FALSE is undefined.                   *)
Absent == [t |-> "absent", v |-> <<>>]
JsNull == [t |-> "null", v |-> <<>>]
Str(chars) == [t |-> "string", v |-> chars]
Undefined == [def |-> FALSE, v |-> <<>>]
Some(chars) == [def |-> TRUE, v |-> chars]

IdKeys == <<"id", "uuid", "beadId">>
TitleKeys == <<"title", "name">>
ExternalRefKeys == <<"external_reference_id", "externalReferenceId", "external_ref",
                     "external_reference", "externalRefId">>
EntryKeys == Range(IdKeys) \cup Range(TitleKeys) \cup Range(ExternalRefKeys)

\* `!entry || typeof entry !== 'object'` is false
IsObject(entry) == entry.kind = "object"

\* a lookup that tries the first key of the list only
FirstKeyOnly(entry, keys) ==
  IF keys # <<>> /\ entry.f[Head(keys)].t \notin {"absent", "null"} THEN Head(keys) ELSE ""

RECURSIVE FirstKey(_, _)
\* the loop of pickValue and pickFirstKey: the first key that the entry has
\* with a value other than null ("" when none)
FirstKey(entry, keys) ==
  IF keys = <<>> THEN ""
  ELSE IF entry.f[Head(keys)].t \notin {"absent", "null"} THEN Head(keys)
  ELSE FirstKey(entry, Tail(keys))

\* pickFirstKey, lines 34-50
PickFirstKey(entry, keys) ==
  IF ~IsObject(entry) \/ FirstKey(entry, keys) = ""
  THEN [value |-> Undefined, key |-> ""]
  ELSE [value |-> Some(entry.f[FirstKey(entry, keys)].v), key |-> FirstKey(entry, keys)]

\* pickValue, lines 16-32
PickValue(entry, keys, fallback) ==
  IF ~IsObject(entry) \/ FirstKey(entry, keys) = "" THEN fallback
  ELSE Some(entry.f[FirstKey(entry, keys)].v)

\* a ?? b
Coalesce(a, b) == IF a.def THEN a ELSE b

DigitChar(d) == <<"0", "1", "2", "3", "4", "5", "6", "7", "8", "9">>[d + 1]

RECURSIVE DecimalChars(_)
\* String(n) of a natural number
DecimalChars(n) ==
  IF n < 10 THEN <<DigitChar(n)>> ELSE Append(DecimalChars(n \div 10), DigitChar(n % 10))

\* `bead-${index}`
Placeholder(index) == <<"b", "e", "a", "d", "-">> \o DecimalChars(index)

RECURSIVE SplitOn(_, _)
\* str.split(sep) for a separator of one character
SplitOn(str, sep) ==
  IF \A i \in 1..Len(str) : str[i] # sep THEN <<str>>
  ELSE LET k == CHOOSE i \in 1..Len(str) :
                  str[i] = sep /\ \A j \in 1..(i - 1) : str[j] # sep
       IN <<SubSeq(str, 1, k - 1)>> \o SplitOn(SubSeq(str, k + 1, Len(str)), sep)

\* str.split(sep, limit): the first limit pieces of the split
SplitLimit(str, sep, limit) ==
  SubSeq(SplitOn(str, sep), 1, Min(limit, Len(SplitOn(str, sep))))

\* normalizeBead, lines 90-97: the external reference
ParseExternalRef(raw) ==
  IF raw.def /\ raw.v # <<>>
  THEN LET parts == SplitLimit(raw.v, ":", 2)
       IN [id |-> Some(parts[1]),
           description |-> IF Len(parts) > 1 THEN Some(parts[2]) ELSE Undefined]
  ELSE [id |-> Undefined, description |-> Undefined]

\* normalizeBead(entry, index), lines 76-111
NormalizeBead(entry, index) ==
  LET picked == PickFirstKey(entry, IdKeys)
      id == picked.value
      title == Coalesce(PickValue(entry, TitleKeys, Coalesce(id, Some(Placeholder(index)))),
                        Some(Placeholder(index)))
      ext == ParseExternalRef(PickFirstKey(entry, ExternalRefKeys).value)
  IN [id |-> Coalesce(id, Some(Placeholder(index))).v,
      idKey |-> picked.key,
      title |-> title.v,
      externalReferenceId |-> ext.id,
      externalReferenceDescription |-> ext.description]

NoEntryFields == [k \in EntryKeys |-> Absent]

\* an object with the given values under the given keys
Object(fields) ==
  [kind |-> "object",
   f |-> [k \in EntryKeys |-> IF k \in DOMAIN fields THEN fields[k] ELSE Absent]]

\* values of an id or title field: missing, null, empty, a string, a number
FieldValues == {Absent, JsNull, Str(<<>>), Str(<<"T", "-", "1">>),
                [t |-> "number", v |-> <<"7">>]}

\* records that differ in their id and title fields, null, and a value that
\* is no object
IdTitleEntries ==
  {Object([id |-> a, uuid |-> b, beadId |-> e, title |-> c, name |-> d]) :
      a \in FieldValues, b \in {Absent, Str(<<"u">>)}, c \in FieldValues,
      d \in {Absent, Str(<<>>), Str(<<"n">>)}, e \in {Absent, Str(<<"b">>)}}
  \cup {[kind |-> "null", f |-> NoEntryFields], [kind |-> "other", f |-> NoEntryFields]}

RefChars == {"J", "f", ":"}

\* strings of at most MaxRefLen characters
RefStrings == UNION {[1..n -> RefChars] : n \in 0..MaxRefLen}

\* records that differ in their external reference
ExternalRefEntries ==
  {Object([id |-> Str(<<"T", "-", "1">>), external_ref |-> Str(r)]) : r \in RefStrings}
  \cup {Object([id |-> Str(<<"T", "-", "1">>)])}

NoBead == [id |-> <<>>, idKey |-> "", title |-> <<>>,
           externalReferenceId |-> Undefined, externalReferenceDescription |-> Undefined]

InitNormalize ==
  /\ Quiet
  /\ calc \in [fn : {"normalizeBead"},
               in : [entry : IdTitleEntries \cup ExternalRefEntries, index : 0..MaxRaw],
               out : {NoBead}, done : {FALSE}]

\* beads.map((entry, index) => normalizeBead(entry, index)), line 588
NormalizeCalled == Return("normalizeBead", NormalizeBead(calc.in.entry, calc.in.index))

NextNormalize == NormalizeCalled

SpecNormalize == InitNormalize /\ [][NextNormalize]_vars

\* values of the id field of the records of one data source
LoadIdValues == {Absent, Str(Placeholder(0)), Str(Placeholder(1)), Str(<<"T", "-", "1">>)}

\* data sources of up to MaxRaw records
RawRecords == UNION {[1..n -> {Object([id |-> a]) : a \in LoadIdValues}] : n \in 0..MaxRaw}

InitLoadItems ==
  /\ Quiet
  /\ calc \in [fn : {"loadBeads"}, in : RawRecords, out : {<<>>}, done : {FALSE}]

\* loadBeads, lines 588-593: the ids of the items returned
LoadedIds(beads) == SortItems([i \in 1..Len(beads) |-> NormalizeBead(beads[i], i - 1).id])

ItemsLoaded == Return("loadBeads", LoadedIds(calc.in))

NextLoadItems == ItemsLoaded

SpecLoadItems == InitLoadItems /\ [][NextLoadItems]_vars

(* --------------------------- calculateLayout --------------------------- *)
(* The dependency graph of the webview: nodes (ids T-<n>, in ascending      *)
(* order of n as getDependencyTreeHtml serializes them) and the array of    *)
(* edges [from, to]; from is the id of a node, to is any id.  calc follows  *)
(* one call: queue and visited are the variables of the function, placed    *)
(* is the content of `levels` as the entries [node, level, via] in the      *)
(* order in which they were pushed (via: the node whose parent this one is, *)
(* 0 for a node of the first queue, Off for a node added as unvisited).     *)
NodeIds == 1..MaxNodes
TargetIds == 1..(MaxNodes + 1)
NoPos == [x |-> Off, y |-> Off]

LayoutNodes(g) == SortedSeq(g.nodes)

\* outDegree.get(n), lines 1503-1506
OutDegree(g, n) == Cardinality({i \in 1..Len(g.edges) : g.edges[i].from = n})

\* the nodes seeded like the leaves although none has out-degree 0
SeedsNoFallback(g) == SelectSeq(LayoutNodes(g), LAMBDA n : OutDegree(g, n) = 0)

\* lines 1510-1516: the leaves, or the nodes of minimal out-degree
Seeds(g) ==
  LET leaves == SelectSeq(LayoutNodes(g), LAMBDA n : OutDegree(g, n) = 0)
      minOutDegree == CHOOSE d \in {OutDegree(g, n) : n \in g.nodes} :
                         \A n \in g.nodes : d <= OutDegree(g, n)
  IN IF leaves # <<>> \/ g.nodes = {} THEN leaves
     ELSE SelectSeq(LayoutNodes(g), LAMBDA n : OutDegree(g, n) = minOutDegree)

\* lines 1531-1534: the nodes that depend on node and are not visited yet,
\* one for each edge
Parents(g, node, visited) ==
  LET hits == SelectSeq(g.edges, LAMBDA e : e.to = node /\ e.from \in g.nodes
                                            /\ e.from \notin visited)
  IN [i \in 1..Len(hits) |-> hits[i].from]

\* Math.max(...levels.keys(), -1)
MaxLevel(placed) ==
  IF placed = <<>> THEN 0 - 1
  ELSE CHOOSE l \in {placed[i].level : i \in 1..Len(placed)} :
          \A i \in 1..Len(placed) : placed[i].level <= l

\* an unvisited-node pass that puts all unvisited nodes on one new level
AddUnvisitedSameLevel(nodeSeq, visited, placed) ==
  LET unvisited == SelectSeq(nodeSeq, LAMBDA n : n \notin visited)
  IN placed \o [i \in 1..Len(unvisited) |->
                  [node |-> unvisited[i], level |-> MaxLevel(placed) + 1, via |-> Off]]

\* an unvisited-node pass that adds nothing
AddUnvisitedNone(nodeSeq, visited, placed) == placed

RECURSIVE AddUnvisited(_, _, _)
\* lines 1543-1552: every node not visited gets a level of its own
AddUnvisited(nodeSeq, visited, placed) ==
  IF nodeSeq = <<>> THEN placed
  ELSE AddUnvisited(Tail(nodeSeq), visited,
         IF Head(nodeSeq) \in visited THEN placed
         ELSE Append(placed, [node |-> Head(nodeSeq), level |-> MaxLevel(placed) + 1,
                              via |-> Off]))

\* lines 1560-1578: the position of node n, which is in `levels`: the saved
\* one, or the one of its last index in its level sorted by number
PositionOf(g, placed, n) ==
  LET level == placed[CHOOSE i \in 1..Len(placed) : placed[i].node = n].level
      inLevel == {i \in 1..Len(placed) : placed[i].level = level}
      index == Cardinality({i \in inLevel : placed[i].node <= n}) - 1
  IN IF n \in g.saved THEN [x |-> 0, y |-> 0]
     ELSE [x |-> 100 + index * 250, y |-> 100 + level * 120]

Positions(g, placed) ==
  [n \in NodeIds |->
     IF \E i \in 1..Len(placed) : placed[i].node = n THEN PositionOf(g, placed, n)
     ELSE NoPos]

Edges == [from : NodeIds, to : TargetIds]

\* graphs: any nodes, up to MaxEdges edges from these nodes in any order,
\* repeated edges, self-edges, cycles and targets without node included, and
\* a saved position for node 1 or for none
Graphs ==
  {g \in [nodes : SUBSET NodeIds,
          edges : UNION {[1..n -> Edges] : n \in 0..MaxEdges},
          saved : {{}, {1}}] :
     /\ \A i \in 1..Len(g.edges) : g.edges[i].from \in g.nodes
     /\ g.saved \subseteq g.nodes}

InitLayout ==
  /\ Quiet
  /\ calc \in [fn : {"calculateLayout"}, in : Graphs, pc : {"start"}, queue : {<<>>},
               visited : {{}}, placed : {<<>>}, out : {[n \in NodeIds |-> NoPos]},
               done : {FALSE}]

\* lines 1498-1520: up to the while loop
LayoutStart ==
  /\ calc.fn = "calculateLayout" /\ calc.pc = "start"
  /\ calc' = [calc EXCEPT
        !.pc = "bfs",
        !.queue = [i \in 1..Len(Seeds(calc.in)) |->
                     [node |-> Seeds(calc.in)[i], level |-> 0, via |-> 0]],
        !.visited = Range(Seeds(calc.in))]
  /\ UNCHANGED progVars

\* lines 1522-1540: one pass of the while loop
BfsStep ==
  /\ calc.fn = "calculateLayout" /\ calc.pc = "bfs" /\ calc.queue # <<>>
  /\ LET cur == Head(calc.queue)
         parents == Parents(calc.in, cur.node, calc.visited)
     IN calc' = [calc EXCEPT
           !.placed = Append(@, cur),
           !.visited = @ \cup Range(parents),
           !.queue = Tail(@) \o [i \in 1..Len(parents) |->
                        [node |-> parents[i], level |-> cur.level + 1, via |-> cur.node]]]
  /\ UNCHANGED progVars

\* lines 1542-1579: the loop has ended; unvisited nodes and positions
LayoutFinish ==
  /\ calc.fn = "calculateLayout" /\ calc.pc = "bfs" /\ calc.queue = <<>>
  /\ LET placed == AddUnvisited(LayoutNodes(calc.in), calc.visited, calc.placed)
     IN calc' = [calc EXCEPT !.pc = "done", !.placed = placed,
                             !.out = Positions(calc.in, placed), !.done = TRUE]
  /\ UNCHANGED progVars

NextLayout == LayoutStart \/ BfsStep \/ LayoutFinish

SpecLayout == InitLayout /\ [][NextLayout]_vars

\* the script runs to its end: nothing else runs in the webview meanwhile
FairLayout == SpecLayout /\ WF_vars(NextLayout)

\* graphs without cycle whose edges all end at a node: some ranking of the
\* nodes puts every issue above the issues it depends on
MaxDagEdges == 3

Acyclic(g) ==
  \E rank \in [NodeIds -> NodeIds] :
     \A i \in 1..Len(g.edges) : rank[g.edges[i].from] > rank[g.edges[i].to]

Dags ==
  {g \in [nodes : SUBSET NodeIds,
          edges : UNION {[1..n -> [from : NodeIds, to : NodeIds]] : n \in 0..MaxDagEdges},
          saved : {{}}] :
     /\ \A i \in 1..Len(g.edges) : g.edges[i].from \in g.nodes /\ g.edges[i].to \in g.nodes
     /\ Acyclic(g)}

InitLayoutDag ==
  /\ Quiet
  /\ calc \in [fn : {"calculateLayout"}, in : Dags, pc : {"start"}, queue : {<<>>},
               visited : {{}}, placed : {<<>>}, out : {[n \in NodeIds |-> NoPos]},
               done : {FALSE}]

SpecLayoutDag == InitLayoutDag /\ [][NextLayout]_vars

(* ------------------------- dragging a graph node ----------------------- *)
(* One gesture of the left mouse button on the element of one node of the  *)
(* graph.  calc holds the variables of the script (draggedNodeId, 0 = null; *)
(* isDragging; mouseDownPos and dragOffset; position = nodePositions.get of *)
(* the node) and what the gesture did: moves = mousemove events so far,     *)
(* far = one of them was more than DragThreshold px from the press point,   *)
(* sets = nodePositions.set calls, saves = savePositions calls, opens =     *)
(* openBead messages posted.                                                *)
DragThreshold == 5

Coords == {0, 3, 4, 6}
Points == [x : Coords, y : Coords]
NoPoint == [x |-> Off, y |-> Off]

\* lines 1764-1768: Math.sqrt(dx * dx + dy * dy) > 5
BeyondThreshold(from, to) ==
  (to.x - from.x) * (to.x - from.x) + (to.y - from.y) * (to.y - from.y)
     > DragThreshold * DragThreshold

InitGesture ==
  /\ Quiet
  /\ calc \in [fn : {"gesture"}, done : {FALSE}, pc : {"idle"},
               scroll : {[left |-> 0, top |-> 0], [left |-> 7, top |-> 2]},
               draggedNodeId : {0}, isDragging : {FALSE}, mouseDownPos : {NoPoint},
               dragOffset : {[x |-> 0, y |-> 0]}, position : {[x |-> 100, y |-> 220]},
               moves : {0}, far : {FALSE}, sets : {0}, saves : {0}, opens : {0}]

\* createNode, lines 1599-1611: mousedown on the node, left button
MouseDown(e) ==
  /\ calc.fn = "gesture" /\ calc.pc = "idle"
  /\ calc' = [calc EXCEPT
        !.pc = "pressed",
        !.draggedNodeId = 1,
        !.mouseDownPos = e,
        !.dragOffset = [x |-> e.x - calc.position.x, y |-> e.y - calc.position.y]]
  /\ UNCHANGED progVars

\* createNode, line 1615: if (!isDragging)
ClickGuard(c) == ~c.isDragging

\* document mousemove, lines 1757-1789
MouseMove(e) ==
  /\ calc.fn = "gesture" /\ calc.pc = "pressed" /\ calc.moves < MaxMoves
  /\ LET starts == ~calc.isDragging /\ calc.mouseDownPos # NoPoint
                   /\ BeyondThreshold(calc.mouseDownPos, e)
         dragging == calc.isDragging \/ starts
         moved == calc.draggedNodeId # 0 /\ dragging
     IN calc' = [calc EXCEPT
           !.moves = @ + 1,
           !.far = @ \/ BeyondThreshold(calc.mouseDownPos, e),
           !.isDragging = IF calc.draggedNodeId # 0 THEN dragging ELSE @,
           !.position = IF moved
                        THEN [x |-> e.x - calc.dragOffset.x + calc.scroll.left,
                              y |-> e.y - calc.dragOffset.y + calc.scroll.top]
                        ELSE @,
           !.sets = IF moved THEN @ + 1 ELSE @]
  /\ UNCHANGED progVars

\* document mouseup, lines 1792-1807
MouseUp ==
  /\ calc.fn = "gesture" /\ calc.pc = "pressed"
  /\ calc' = [calc EXCEPT
        !.pc = "released",
        !.saves = IF calc.isDragging THEN @ + 1 ELSE @,
        !.draggedNodeId = 0,
        !.mouseDownPos = NoPoint,
        !.isDragging = FALSE]
  /\ UNCHANGED progVars

\* createNode, lines 1614-1621: the click that follows the mouseup
Click ==
  /\ calc.fn = "gesture" /\ calc.pc = "released"
  /\ calc' = [calc EXCEPT
        !.pc = "clicked",
        !.done = TRUE,
        !.opens = IF ClickGuard(calc) THEN @ + 1 ELSE @]
  /\ UNCHANGED progVars

NextGesture ==
  \/ \E e \in Points : MouseDown(e)
  \/ \E e \in Points : MouseMove(e)
  \/ MouseUp
  \/ Click

SpecGesture == InitGesture /\ [][NextGesture]_vars

(* ------------------------ the dependency graph view -------------------- *)
(* The script of the dependency tree webview over its lifetime.  calc holds *)
(* the webview state kept by the host (state: vscode.getState()), the       *)
(* variables of the script (savedPositions, nodePositions, draggedNodeId,   *)
(* isDragging, mouseDownPos, dragOffset) and pc: "unloaded" (no script      *)
(* context) or "ready".  A position that a map does not hold is NoPos.      *)
(* released = the nodes dragged and released since the last autoLayout,     *)
(* dropped = where each was released, fresh = autoLayout was the last       *)
(* handler of the script to run.                                            *)
MaxGestures == 2

NoPositions == [n \in NodeIds |-> NoPos]
NoState == [defined |-> FALSE, nodePositions |-> NoPositions]

\* a script start that restores nothing
RestoreNothing(st) == NoPositions

\* lines 1486-1487: (vscode.getState() || {}).nodePositions || {}
RestorePositions(st) == IF st.defined THEN st.nodePositions ELSE NoPositions

RECURSIVE Bfs(_, _, _, _)
\* lines 1518-1540: the while loop of calculateLayout run to its end
Bfs(g, queue, visited, placed) ==
  IF queue = <<>> THEN [visited |-> visited, placed |-> placed]
  ELSE LET cur == Head(queue)
           parents == Parents(g, cur.node, visited)
       IN Bfs(g,
              Tail(queue) \o [i \in 1..Len(parents) |->
                 [node |-> parents[i], level |-> cur.level + 1, via |-> cur.node]],
              visited \cup Range(parents),
              Append(placed, cur))

\* lines 1497-1552: the content of `levels`
Levels(g) ==
  LET b == Bfs(g, [i \in 1..Len(Seeds(g)) |-> [node |-> Seeds(g)[i], level |-> 0, via |-> 0]],
               Range(Seeds(g)), <<>>)
  IN AddUnvisited(LayoutNodes(g), b.visited, b.placed)

\* calculateLayout(): nodePositions after the call; entries of nodes that are
\* not in `levels` stay as they were
CalculateLayout(g, savedPositions, nodePositions) ==
  LET placed == Levels(g)
  IN [n \in NodeIds |->
        IF \E i \in 1..Len(placed) : placed[i].node = n
        THEN IF savedPositions[n] # NoPos THEN savedPositions[n]
             ELSE PositionOf(g, placed, n)
        ELSE nodePositions[n]]

\* the graphs shown: nodes 1 and 2, and up to MaxEdges dependencies of
\* node 1 on node 2
ViewGraphs ==
  {g \in Graphs : /\ g.nodes = {1, 2} /\ g.saved = {}
                  /\ \A i \in 1..Len(g.edges) : g.edges[i] = [from |-> 1, to |-> 2]}

PressPoints == [x : {0, 6}, y : {0}]

InitGraphView ==
  /\ ProgInit /\ projectRoot
  /\ calc \in [fn : {"graphView"}, done : {FALSE}, in : ViewGraphs, pc : {"unloaded"},
               state : {NoState}, savedPositions : {NoPositions},
               nodePositions : {NoPositions}, draggedNodeId : {0},
               isDragging : {FALSE}, mouseDownPos : {NoPoint},
               dragOffset : {[x |-> 0, y |-> 0]}, gestures : {0}, moves : {0},
               released : {{}}, dropped : {NoPositions}, fresh : {FALSE}]

\* lines 1475-1495 and 1811: the script starts in a new context of the
\* webview, restores the saved positions and renders
ScriptStart ==
  /\ calc.fn = "graphView" /\ calc.pc = "unloaded"
  /\ LET saved == RestorePositions(calc.state)
     IN calc' = [calc EXCEPT
           !.pc = "ready", !.fresh = FALSE,
           !.savedPositions = saved,
           !.nodePositions = CalculateLayout(calc.in, saved, NoPositions)]
  /\ UNCHANGED progVars

\* the host drops the script context of the webview and keeps its state
ContextLost ==
  /\ calc.fn = "graphView" /\ calc.pc = "ready"
  /\ calc' = [calc EXCEPT
        !.pc = "unloaded", !.fresh = FALSE,
        !.savedPositions = NoPositions, !.nodePositions = NoPositions,
        !.draggedNodeId = 0, !.isDragging = FALSE, !.mouseDownPos = NoPoint,
        !.dragOffset = [x |-> 0, y |-> 0], !.moves = 0]
  /\ UNCHANGED progVars

\* createNode, lines 1599-1611: mousedown on the element of node n
NodeMouseDown(n, e) ==
  /\ calc.fn = "graphView" /\ calc.pc = "ready"
  /\ calc.draggedNodeId = 0 /\ calc.gestures < MaxGestures
  /\ n \in calc.in.nodes
  /\ calc' = [calc EXCEPT
        !.fresh = FALSE, !.gestures = @ + 1, !.moves = 0,
        !.draggedNodeId = n,
        !.mouseDownPos = e,
        !.dragOffset = [x |-> e.x - calc.nodePositions[n].x,
                        y |-> e.y - calc.nodePositions[n].y]]
  /\ UNCHANGED progVars

\* document mousemove, lines 1757-1789, the container not scrolled
DocumentMouseMove(e) ==
  /\ calc.fn = "graphView" /\ calc.pc = "ready"
  /\ calc.draggedNodeId # 0 /\ calc.moves < MaxMoves
  /\ LET dragging == calc.isDragging
                     \/ (calc.mouseDownPos # NoPoint /\ BeyondThreshold(calc.mouseDownPos, e))
     IN calc' = [calc EXCEPT
           !.fresh = FALSE, !.moves = @ + 1,
           !.isDragging = dragging,
           !.nodePositions[calc.draggedNodeId] =
              IF dragging THEN [x |-> e.x - calc.dragOffset.x, y |-> e.y - calc.dragOffset.y]
              ELSE @]
  /\ UNCHANGED progVars

\* savePositions, lines 1581-1587
SavePositions(nodePositions) == [defined |-> TRUE, nodePositions |-> nodePositions]

\* document mouseup, lines 1792-1807
DocumentMouseUp ==
  /\ calc.fn = "graphView" /\ calc.pc = "ready" /\ calc.draggedNodeId # 0
  /\ calc' = [calc EXCEPT
        !.fresh = FALSE,
        !.state = IF calc.isDragging THEN SavePositions(calc.nodePositions) ELSE @,
        !.released = IF calc.isDragging THEN @ \cup {calc.draggedNodeId} ELSE @,
        !.dropped[calc.draggedNodeId] =
           IF calc.isDragging THEN calc.nodePositions[calc.draggedNodeId] ELSE @,
        !.draggedNodeId = 0, !.mouseDownPos = NoPoint, !.isDragging = FALSE]
  /\ UNCHANGED progVars

\* lines 1735-1741
AutoLayout ==
  /\ calc.fn = "graphView" /\ calc.pc = "ready" /\ calc.draggedNodeId = 0
  /\ calc' = [calc EXCEPT
        !.fresh = TRUE,
        !.state = SavePositions(NoPositions),
        !.savedPositions = NoPositions,
        !.nodePositions = CalculateLayout(calc.in, NoPositions, NoPositions),
        !.released = {}, !.dropped = NoPositions]
  /\ UNCHANGED progVars

\* the extension reloads its data while the view is open
NextGraphView ==
  \/ ScriptStart
  \/ ContextLost
  \/ \E n \in NodeIds, e \in PressPoints : NodeMouseDown(n, e)
  \/ \E e \in PressPoints : DocumentMouseMove(e)
  \/ DocumentMouseUp
  \/ AutoLayout
  \/ RefreshCommand
  \/ LoadStep

SpecGraphView == InitGraphView /\ [][NextGraphView]_vars

(* ----------------------------- findBdCommand --------------------------- *)
(* calc follows one call: in = the configured path and the machine (exists: *)
(* the paths fs.access accepts, onPath: `bd --version` runs), pc = the       *)
(* await the call has reached, k = the index of the common path tried next. *)
CommonPaths == <<"/opt/homebrew/bin/bd", "/usr/local/bin/bd", "~/.local/bin/bd", "~/go/bin/bd">>

ConfigPaths == {"", "bd", "/custom/bd", "/usr/local/bin/bd"}

NoCommand == [ok |-> FALSE, path |-> "", error |-> ""]
Found(p) == [ok |-> TRUE, path |-> p, error |-> ""]
NotFound(msg) == [ok |-> FALSE, path |-> "", error |-> msg]

\* line 21: if (configPath && configPath !== 'bd')
IsExplicit(configPath) == configPath # "" /\ configPath # "bd"

InitFindBd ==
  /\ Quiet
  /\ calc \in [fn : {"findBdCommand"},
               in : [configPath : ConfigPaths,
                     exists : SUBSET ({"/custom/bd"} \cup Range(CommonPaths)),
                     onPath : BOOLEAN],
               pc : {"start"}, k : {1}, out : {NoCommand}, done : {FALSE}]

\* lines 20-28: an explicit path is returned or the call throws
CheckConfigured ==
  /\ calc.fn = "findBdCommand" /\ calc.pc = "start"
  /\ calc' = IF IsExplicit(calc.in.configPath)
             THEN IF calc.in.configPath \in calc.in.exists
                  THEN [calc EXCEPT !.pc = "end", !.done = TRUE,
                                    !.out = Found(calc.in.configPath)]
                  ELSE [calc EXCEPT !.pc = "end", !.done = TRUE,
                                    !.out = NotFound("Configured bd path not found")]
             ELSE [calc EXCEPT !.pc = "path"]
  /\ UNCHANGED progVars

\* lines 30-36: execFileAsync('bd', ['--version'])
TryPath ==
  /\ calc.fn = "findBdCommand" /\ calc.pc = "path"
  /\ calc' = IF calc.in.onPath
             THEN [calc EXCEPT !.pc = "end", !.done = TRUE, !.out = Found("bd")]
             ELSE [calc EXCEPT !.pc = "common"]
  /\ UNCHANGED progVars

\* lines 46-53: one pass of the loop over commonPaths
TryCommon ==
  /\ calc.fn = "findBdCommand" /\ calc.pc = "common" /\ calc.k <= Len(CommonPaths)
  /\ calc' = IF CommonPaths[calc.k] \in calc.in.exists
             THEN [calc EXCEPT !.pc = "end", !.done = TRUE,
                               !.out = Found(CommonPaths[calc.k])]
             ELSE [calc EXCEPT !.k = @ + 1]
  /\ UNCHANGED progVars

\* line 55: every common path was tried
ThrowNotFound ==
  /\ calc.fn = "findBdCommand" /\ calc.pc = "common" /\ calc.k > Len(CommonPaths)
  /\ calc' = [calc EXCEPT !.pc = "end", !.done = TRUE,
                          !.out = NotFound("bd command not found")]
  /\ UNCHANGED progVars

NextFindBd == CheckConfigured \/ TryPath \/ TryCommon \/ ThrowNotFound

SpecFindBd == InitFindBd /\ [][NextFindBd]_vars

(* ------------------------- forms of the issue data --------------------- *)
(* A text is a sequence of lines and a line a sequence of tokens: the       *)
(* punctuation of JSON and, as one token each, the compact JSON text of a   *)
(* record ([tok |-> "value", v |-> the record]).  A parsed value is a       *)
(* record (kind "object"), an array of records (kind "array") or an object  *)
(* whose beads or project.beads member is an array (kind "wrapper").        *)
Tok(v) == [tok |-> "value", v |-> v]
Punct(c) == [tok |-> c, v |-> [kind |-> "null", f |-> NoEntryFields]]

ArrayValue(elems) == [kind |-> "array", elems |-> elems]
WrapperValue(key, elems) == [kind |-> "wrapper", key |-> key, elems |-> elems]
SyntaxError == [ok |-> FALSE, value |-> ArrayValue(<<>>)]
Parsed(v) == [ok |-> TRUE, value |-> v]

RECURSIVE ElementTokens(_)
\* the elements of an array joined with commas
ElementTokens(records) ==
  IF records = <<>> THEN <<>>
  ELSE IF Len(records) = 1 THEN <<Tok(records[1])>>
  ELSE <<Tok(records[1]), Punct(",")>> \o ElementTokens(Tail(records))

\* JSON.stringify(records): an array on one line
ArrayTokens(records) == <<Punct("[")>> \o ElementTokens(records) \o <<Punct("]")>>

RECURSIVE Concat(_)
\* the lines of a text joined: JSON ignores the line breaks between tokens
Concat(lines) == IF lines = <<>> THEN <<>> ELSE Head(lines) \o Concat(Tail(lines))

\* the array that tokens spell, if they spell one
ParseArray(tokens) ==
  LET n == Len(tokens)
      inner == SubSeq(tokens, 2, n - 1)
      wellFormed ==
         /\ n >= 2 /\ tokens[1] = Punct("[") /\ tokens[n] = Punct("]")
         /\ \A i \in 1..Len(inner) :
               IF i % 2 = 1 THEN inner[i].tok = "value" ELSE inner[i] = Punct(",")
         /\ (Len(inner) = 0 \/ Len(inner) % 2 = 1)
  IN IF wellFormed
     THEN Parsed(ArrayValue([i \in 1..((Len(inner) + 1) \div 2) |-> inner[2 * i - 1].v]))
     ELSE SyntaxError

\* JSON.parse(text) of the tokens of a text
JsonParse(tokens) ==
  LET n == Len(tokens)
  IN IF n = 1 /\ tokens[1].tok = "value" THEN Parsed(tokens[1].v)
     ELSE IF n >= 2 /\ tokens[1] = Punct("{beads:") /\ tokens[n] = Punct("}")
          /\ ParseArray(SubSeq(tokens, 2, n - 1)).ok
     THEN Parsed(WrapperValue("beads", ParseArray(SubSeq(tokens, 2, n - 1)).value.elems))
     ELSE IF n >= 4 /\ tokens[1] = Punct("{project:") /\ tokens[2] = Punct("{beads:")
          /\ tokens[n - 1] = Punct("}") /\ tokens[n] = Punct("}")
          /\ ParseArray(SubSeq(tokens, 3, n - 2)).ok
     THEN Parsed(WrapperValue("project", ParseArray(SubSeq(tokens, 3, n - 2)).value.elems))
     ELSE ParseArray(tokens)

\* extractBeads(root), part_002 lines 113-134
ExtractBeads(root) ==
  IF root.kind \in {"array", "wrapper"} THEN [def |-> TRUE, beads |-> root.elems]
  ELSE [def |-> FALSE, beads |-> <<>>]

\* the items of a load: beads.map(normalizeBead) sorted, as the ids
LoadResult(beads) ==
  [ok |-> TRUE,
   ids |-> SortItems([i \in 1..Len(beads) |-> NormalizeBead(beads[i], i - 1).id])]

\* the load could not use the text
LoadFailed == [ok |-> FALSE, ids |-> <<>>]

\* loadBeads, lines 573-590: stdout.trim().split('\n'), each line parsed; a
\* line that does not parse makes the call fall back to the file
LoadFromStdout(lines) ==
  LET parsed == [i \in 1..Len(lines) |-> JsonParse(lines[i])]
  IN IF \E i \in 1..Len(lines) : ~parsed[i].ok THEN LoadFailed
     ELSE LoadResult([i \in 1..Len(lines) |-> parsed[i].value])

\* readBeadsDocument, lines 618-637: the beads of a data file (ok = FALSE
\* when it throws); a .jsonl file is read line by line, blank lines dropped
ReadBeadsDocument(isJsonl, lines) ==
  IF isJsonl
  THEN LET kept == SelectSeq(lines, LAMBDA l : l # <<>>)
           parsed == [i \in 1..Len(kept) |-> JsonParse(kept[i])]
       IN IF \E i \in 1..Len(kept) : ~parsed[i].ok
          THEN [ok |-> FALSE, root |-> ArrayValue(<<>>), beads |-> <<>>]
          ELSE [ok |-> TRUE,
                root |-> ArrayValue([i \in 1..Len(kept) |-> parsed[i].value]),
                beads |-> [i \in 1..Len(kept) |-> parsed[i].value]]
  ELSE LET root == JsonParse(Concat(lines))
       IN IF ~root.ok \/ ~ExtractBeads(root.value).def
          THEN [ok |-> FALSE, root |-> ArrayValue(<<>>), beads |-> <<>>]
          ELSE [ok |-> TRUE, root |-> root.value, beads |-> ExtractBeads(root.value).beads]

\* loadBeadsFromFile, lines 609-612
LoadFromFile(isJsonl, lines) ==
  IF ReadBeadsDocument(isJsonl, lines).ok
  THEN LoadResult(ReadBeadsDocument(isJsonl, lines).beads)
  ELSE LoadFailed

\* the forms in which a sequence of records reaches the extension
Forms == {"stdoutLines", "stdoutArray", "fileJsonl", "fileArray", "fileBeads",
          "fileProjectBeads"}

\* one record on each line
RecordLines(records) == [i \in 1..Len(records) |-> <<Tok(records[i])>>]

\* the load of the records written in a form
LoadForm(form, records) ==
  CASE form = "stdoutLines" -> LoadFromStdout(RecordLines(records))
    [] form = "stdoutArray" -> LoadFromStdout(<<ArrayTokens(records)>>)
    [] form = "fileJsonl" -> LoadFromFile(TRUE, RecordLines(records) \o << <<>> >>)
    [] form = "fileArray" -> LoadFromFile(FALSE, <<ArrayTokens(records)>>)
    [] form = "fileBeads" ->
         LoadFromFile(FALSE, <<<<Punct("{beads:")>>, ArrayTokens(records), <<Punct("}")>>>>)
    [] form = "fileProjectBeads" ->
         LoadFromFile(FALSE, <<<<Punct("{project:"), Punct("{beads:")>>, ArrayTokens(records),
                               <<Punct("}"), Punct("}")>>>>)

InitLoadForm ==
  /\ Quiet
  /\ calc \in [fn : {"loadForm"}, in : [records : RawRecords, form : Forms],
               out : {LoadFailed}, done : {FALSE}]

FormLoaded == Return("loadForm", LoadForm(calc.in.form, calc.in.records))

NextLoadForm == FormLoaded

SpecLoadForm == InitLoadForm /\ [][NextLoadForm]_vars

(* ---------------------- updateExternalReference ------------------------ *)
(* The data file, the document loaded from it and the items of the tree.   *)
(* JSON.parse creates new objects on every load: gen counts the loads, and *)
(* the `raw` of an item is the record idx of the document of load gen.     *)
(* calc holds the content of the file (its lines), whether its name ends   *)
(* in .jsonl, and the place of the command beads.editExternalReference:    *)
(* "idle", "input" (the input box is open), "saved" (inside                *)
(* `await this.refresh()`), "reloaded", "failed" (the save threw).         *)
(* before, target and value record                                         *)
(* the call made: the records of the file before it, the record of the     *)
(* item and the new value.                                                  *)
MaxReloads == 2

\* JSON.stringify(root, null, 2) of an array: one element on each line
PrettyArray(elems) ==
  IF elems = <<>> THEN << <<Punct("["), Punct("]")>> >>
  ELSE << <<Punct("[")>> >>
       \o [i \in 1..Len(elems) |->
             IF i < Len(elems) THEN <<Tok(elems[i]), Punct(",")>> ELSE <<Tok(elems[i])>>]
       \o << <<Punct("]")>> >>

\* JSON.stringify(root, null, 2)
PrettyRoot(root) ==
  LET arr == PrettyArray(root.elems)
  IN IF root.kind = "array" THEN arr
     ELSE IF root.key = "beads"
     THEN << <<Punct("{beads:")>> \o arr[1] >> \o Tail(arr) \o << <<Punct("}")>> >>
     ELSE << <<Punct("{project:")>>, <<Punct("{beads:")>> \o arr[1] >> \o Tail(arr)
          \o << <<Punct("}")>>, <<Punct("}")>> >>

\* saveBeadsDocument, lines 639-650: the lines of the content written; the
\* content ends with a newline when its last line is empty
SaveBeadsDocument(doc) ==
  IF doc.isJsonl
  THEN (IF doc.root.elems = <<>> THEN << <<>> >> ELSE RecordLines(doc.root.elems))
       \o << <<>> >>
  ELSE PrettyRoot(doc.root) \o << <<>> >>

\* the document and the items of load gen of the file
LoadedFrom(isJsonl, lines, gen) ==
  LET doc == ReadBeadsDocument(isJsonl, lines)
  IN [document |-> [gen |-> gen, isJsonl |-> isJsonl, root |-> doc.root],
      items |-> [i \in 1..Len(doc.beads) |->
                   [gen |-> gen, idx |-> i,
                    externalReferenceKey |-> PickFirstKey(doc.beads[i], ExternalRefKeys).key]]]

\* records of a data file: T-1 with external reference fields, then T-2
RoundTripRecords ==
  {<<Object([id |-> Str(<<"T", "-", "1">>), external_reference_id |-> a, external_ref |-> b]),
     Object([id |-> Str(<<"T", "-", "2">>), external_ref |-> Str(<<"f">>)])>> :
       a \in {Absent, JsNull, Str(<<"f">>)}, b \in {Absent, Str(<<"f">>)}}

\* the data file as it is found: one record a line, or one JSON value
DataFiles ==
  {[isJsonl |-> TRUE, lines |-> RecordLines(r)] : r \in RoundTripRecords}
  \cup {[isJsonl |-> TRUE, lines |-> RecordLines(r) \o << <<>> >>] : r \in RoundTripRecords}
  \cup {[isJsonl |-> FALSE, lines |-> PrettyRoot(root)] :
          root \in {ArrayValue(r) : r \in RoundTripRecords}
                   \cup {WrapperValue(k, r) : k \in {"beads", "project"}, r \in RoundTripRecords}}

NewValues == {<<"J">>, <<"J", ":", "f">>}

InitRoundTrip ==
  /\ Quiet
  /\ \E file \in DataFiles :
        calc = [fn |-> "roundTrip", done |-> FALSE, pc |-> "idle",
                isJsonl |-> file.isJsonl, lines |-> file.lines,
                document |-> LoadedFrom(file.isJsonl, file.lines, 1).document,
                items |-> LoadedFrom(file.isJsonl, file.lines, 1).items,
                item |-> [gen |-> 0, idx |-> 0, externalReferenceKey |-> ""],
                before |-> <<>>, target |-> 0, value |-> <<>>, reloads |-> 0]

\* the command beads.editExternalReference, lines 1945-1961: the item of the
\* tree is taken and the input box is shown
EditExternalReference(i) ==
  /\ calc.fn = "roundTrip" /\ calc.pc = "idle"
  /\ i \in 1..Len(calc.items)
  /\ calc' = [calc EXCEPT !.pc = "input", !.item = calc.items[i]]
  /\ UNCHANGED progVars

\* refresh() with the load from the file, requested by the watcher or the
\* refresh command: document and items are replaced
FileReload ==
  /\ calc.fn = "roundTrip" /\ calc.pc \in {"idle", "input"} /\ calc.reloads < MaxReloads
  /\ LET loaded == LoadedFrom(calc.isJsonl, calc.lines, calc.document.gen + 1)
     IN calc' = [calc EXCEPT !.reloads = @ + 1,
                             !.document = loaded.document, !.items = loaded.items]
  /\ UNCHANGED progVars

\* updateExternalReference, lines 223-230: the record that item.raw is, after
\* the assignment to it
SetReference(record, key, newValue) ==
  [record EXCEPT !.f[IF key # "" THEN key ELSE "external_reference_id"] = Str(newValue)]

\* lines 1963-1967 and updateExternalReference, lines 212-233: the input is
\* accepted, item.raw is changed and this.document is written
UpdateExternalReference(newValue) ==
  /\ calc.fn = "roundTrip" /\ calc.pc = "input"
  /\ LET item == calc.item
         doc ==
            IF item.gen = calc.document.gen
            THEN [calc.document EXCEPT !.root.elems[item.idx] =
                    SetReference(@, item.externalReferenceKey, newValue)]
            ELSE calc.document
     IN calc' = [calc EXCEPT
           !.pc = "saved",
           !.before = calc.document.root.elems, !.target = item.idx, !.value = newValue,
           !.document = doc,
           !.lines = SaveBeadsDocument(doc)]
  /\ UNCHANGED progVars

\* updateExternalReference, lines 212-238, when fs.writeFile rejects (the
\* file is read-only, the disk is full): item.raw has been changed, the file
\* has not, the catch shows the error and refresh() is not called
UpdateExternalReferenceFails(newValue) ==
  /\ calc.fn = "roundTrip" /\ calc.pc = "input"
  /\ LET item == calc.item
         doc ==
            IF item.gen = calc.document.gen
            THEN [calc.document EXCEPT !.root.elems[item.idx] =
                    SetReference(@, item.externalReferenceKey, newValue)]
            ELSE calc.document
     IN calc' = [calc EXCEPT
           !.pc = "failed", !.done = TRUE,
           !.before = calc.document.root.elems, !.target = item.idx, !.value = newValue,
           !.document = doc]
  /\ UNCHANGED progVars

\* line 234: the load of `await this.refresh()` is applied
ReloadAfterSave ==
  /\ calc.fn = "roundTrip" /\ calc.pc = "saved"
  /\ LET loaded == LoadedFrom(calc.isJsonl, calc.lines, calc.document.gen + 1)
     IN calc' = [calc EXCEPT !.pc = "reloaded", !.done = TRUE,
                             !.document = loaded.document, !.items = loaded.items]
  /\ UNCHANGED progVars

NextRoundTrip ==
  \/ \E i \in 1..2 : EditExternalReference(i)
  \/ FileReload
  \/ \E v \in NewValues : UpdateExternalReference(v)
  \/ \E v \in NewValues : UpdateExternalReferenceFails(v)
  \/ ReloadAfterSave

SpecRoundTrip == InitRoundTrip /\ [][NextRoundTrip]_vars

(* ------------------------ dependency records --------------------------- *)
(* The issues T-1 and T-2, each with the dependency records of its raw     *)
(* data.  A field of a record holds the number of an issue id, or 0 for a  *)
(* value that `||` skips (the field is missing, null or empty).            *)
MaxDeps == 1          \* dependency records of one issue

DepIssues == 1..2
DepValues == 0..2
DepRecords == [id : DepValues, depends_on_id : DepValues, issue_id : DepValues]

\* a || b || c
FirstTruthy(a, b, c) == IF a # 0 THEN a ELSE IF b # 0 THEN b ELSE c

\* getDependencyTreeHtml, line 1226
GraphTarget(dep) == FirstTruthy(dep.id, dep.depends_on_id, dep.issue_id)

\* getBeadDetailHtml, lines 673 and 695
DetailTarget(dep) == FirstTruthy(dep.depends_on_id, dep.id, dep.issue_id)

\* getDependencyTreeHtml, lines 1219-1235: the edges, one for each record
\* whose target is set
GraphEdges(deps) ==
  LET recs == {p \in DepIssues \X (1..MaxDeps) :
                 /\ p[2] <= Len(deps[p[1]])
                 /\ GraphTarget(deps[p[1]][p[2]]) # 0}
  IN {[from |-> p[1], to |-> GraphTarget(deps[p[1]][p[2]])] : p \in recs}

\* getBeadDetailHtml, lines 671-686: the ids listed under "Depends On" for
\* issue x
DependsOn(deps, x) == {DetailTarget(deps[x][k]) : k \in 1..Len(deps[x])}

\* getBeadDetailHtml, lines 688-708: the ids listed under "Blocks" for issue y
Blocks(deps, y) ==
  {x \in DepIssues : \E k \in 1..Len(deps[x]) : DetailTarget(deps[x][k]) = y}

InitDependencies ==
  /\ Quiet
  /\ calc \in [fn : {"dependencies"},
               in : [DepIssues -> UNION {[1..n -> DepRecords] : n \in 0..MaxDeps}],
               out : {[edges |-> {}, dependsOn |-> [x \in DepIssues |-> {}],
                       blocks |-> [x \in DepIssues |-> {}]]},
               done : {FALSE}]

\* the dependency graph and the detail view of every issue are rendered
RenderViews ==
  Return("dependencies",
         [edges |-> GraphEdges(calc.in),
          dependsOn |-> [x \in DepIssues |-> DependsOn(calc.in, x)],
          blocks |-> [y \in DepIssues |-> Blocks(calc.in, y)]])

NextDependencies == RenderViews

SpecDependencies == InitDependencies /\ [][NextDependencies]_vars

(* ------------------------------ properties ----------------------------- *)
LiveTimers == {h \in Handles : timers[h] # Off}

\* a step in which loadBeadsFromFile throws
FileFails == \E l \in LoadIds : FileFail(l) \/ FileDeliver(l, FALSE)

\* a step in which loadBeads is called and finds no project root
RootFails == ~projectRoot /\ last'.loadCalls > 0

\* a step in which refresh() applies the result of a load
LoadApplies == \E l \in LoadIds : CliDeliver(l, TRUE) \/ FileDeliver(l, TRUE)

ErrRefreshShown(l) == ErrRefresh \in Range(l.out)

\* C1: at every moment at most one loadBeads invocation started by refresh()
\* is in flight, whoever calls refresh()
C1_AtMostOneLoadInFlight == Cardinality(InFlight) <= 1

\* a refresh() call arrived while a load was in flight and was recorded
C1_Witness ==
  /\ Cardinality(InFlight) = 1
  /\ pendingRefresh
  /\ last.refreshCalls = 1 /\ last.loadCalls = 0

\* C2: no refresh request is lost: after a refresh() call that started no
\* load, loadBeads is eventually called again, whether the load in flight
\* succeeds or fails
C2_NoRefreshLost == unserved ~> ~unserved

\* a load completed and started the load of the recorded request
C2_Witness ==
  /\ last.op \in {"CliLoaded", "FileLoaded", "LoadFailed"}
  /\ last.refreshCalls = 1 /\ last.loadCalls = 1
  /\ ~unserved

\* C3: a burst of watcher change/create events, each within the debounce
\* window of the one before, yields exactly one refresh() call, made when the
\* window after the last event has passed, and so one load, started at once or
\* recorded as pending; at most one debounce timer is scheduled at any time
C3_DebounceCoalesces ==
  /\ Cardinality(LiveTimers) <= 1
  /\ burst.owed = Cardinality(LiveTimers)
  /\ last.op = "TimerFire" =>
       /\ burst.since = DebounceTicks
       /\ last.refreshCalls = 1
       /\ last.loadCalls = 1 \/ (last.loadCalls = 0 /\ pendingRefresh)

\* the timer of a burst of several events has fired
C3_Witness ==
  /\ last.op = "TimerFire"
  /\ burst.many
  /\ burst.owed = 0

\* C4: the deletion of the watched data source causes no load, the loads of
\* the tree view's getChildren that answers its change notification included
C4_DeleteCausesNoLoad == last.forDelete => last.loadCalls = 0

\* C5: a failed load leaves items and document as they were, shows an error
\* notification and does not make refresh() throw; a load that fails at once
\* after another one was applied leaves the list that one brought
C5_FailedLoadKeepsState ==
  [][/\ (FileFails \/ (RootFails /\ ~LoadApplies)) =>
          /\ items' = items
          /\ document' = document
          /\ ErrRefreshShown(last')
          /\ ~last'.threw
      /\ \A l \in LoadIds :
           (RootFails /\ (CliDeliver(l, TRUE) \/ FileDeliver(l, TRUE))) =>
              /\ items' = LoadedItems(loads[l].snap)
              /\ ErrRefreshShown(last')
              /\ ~last'.threw]_vars

\* a load failed after an earlier one had been applied
C5_Witness ==
  /\ last.op = "LoadFailed"
  /\ ErrRefreshShown(last)
  /\ items # <<>>
  /\ document # NoDocument

C7_FailedMutationNoRefresh ==
  [][(\E o \in OpIds : ops[o] = "cli" /\ ops'[o] = "idle" /\ last'.op = "MutCliFail") =>
        /\ last'.out = <<ErrMutation>>
        /\ last'.refreshCalls = 0
        /\ last'.loadCalls = 0
        /\ loads' = loads
        /\ refreshInProgress' = refreshInProgress
        /\ pendingRefresh' = pendingRefresh
        /\ items' = items
        /\ document' = document]_vars

\* the bd command of a handler failed while a list was loaded
C7_Witness ==
  /\ last.op = "MutCliFail"
  /\ last.out = <<ErrMutation>>
  /\ items # <<>>

OpenPanelIds == {p \in PanelIds : panels[p].state = "open"}

\* C8: after every successful load every open panel whose issue is in the new
\* list shows content rendered from the new list
C8_OpenPanelsFresh ==
  last.op \in {"CliLoaded", "FileLoaded"} =>
    \A p \in OpenPanelIds :
       panels[p].bead \in SeqIds(items) =>
         panels[p].html = DetailHtml(ItemById(items, panels[p].bead), items)

\* C9: every entry of openPanels is a panel that is still open
C9_RegistryHoldsOpenPanels ==
  \A id \in IssueIds :
     openPanels[id] # 0 => panels[openPanels[id]].state = "open"

\* a panel was closed and another one is registered
C9_Witness ==
  /\ \E p \in PanelIds : panels[p].state = "closed"
  /\ \E id \in IssueIds : openPanels[id] # 0

Pos(seq, x) == CHOOSE i \in 1..Len(seq) : seq[i] = x

\* C10: after one row X is dropped on another row Y of the tree, X is shown
\* immediately before Y and all other rows keep their relative order; dropped
\* on no row, X is shown last
C10_DropBeforeTarget ==
  (last.op = "HandleDrop" /\ Len(last.arg.dragged) = 1) =>
    LET x == last.arg.dragged[1]
        y == last.arg.target
        before == last.arg.before
        after == Displayed
        others == Range(before) \ {x}
    IN (x \in Range(before) /\ y # x /\ (y = 0 \/ y \in Range(before))) =>
         /\ Range(after) = Range(before) /\ Len(after) = Len(before)
         /\ IF y = 0 THEN after[Len(after)] = x
                     ELSE Pos(after, x) + 1 = Pos(after, y)
         /\ \A a, b \in others :
              Pos(before, a) < Pos(before, b) => Pos(after, a) < Pos(after, b)

\* the drop handled last was made on a row of the tree or on the empty area
DropDone ==
  /\ last.op = "HandleDrop"
  /\ last.arg.dragged # <<>>
  /\ last.arg.target = 0 \/ last.arg.target \in Range(last.arg.before)

Positioned == {id \in SortIds : manualSortOrder[id] # Off}

\* C11: after every handleDrop the rows shown hold exactly the positions
\* 0..n-1 in the order shown, and no two ids of the manual sort map hold the
\* same position
C11_PositionsTotalOrder ==
  DropDone =>
    /\ \A i \in 1..Len(Displayed) : manualSortOrder[Displayed[i]] = i - 1
    /\ \A a, b \in Positioned : a # b => manualSortOrder[a] # manualSortOrder[b]

Ascending(seq) == \A i, j \in 1..Len(seq) : i < j => seq[i] < seq[j]

\* C12: clearSortOrder empties the manual sort map and removes the persisted
\* copy, and the tree then shows the filtered issues in natural id order
C12_ClearRestoresNaturalOrder ==
  last.op = "ClearSortOrder" =>
    /\ Positioned = {}
    /\ savedSortOrder = NoSaved
    /\ Displayed = IdsOf(FilterItems(items, searchQuery))
    /\ Ascending(Displayed)

\* the clear changed the order shown, which drops had made
C12_Witness ==
  /\ last.op = "ClearSortOrder"
  /\ Len(Displayed) >= 2
  /\ last.arg.before # Displayed

\* the manual sort map without the entries of ids that are not loaded
PresentOrder ==
  [id \in SortIds |-> IF id \in SeqIds(items) THEN manualSortOrder[id] ELSE Off]

\* C13: refresh, successful or failed, watcher deletions and search changes
\* leave the manual sort map and its persisted copy as they are, and the
\* entries of ids that are not loaded do not change the order of the rows shown
C13_ReloadKeepsSortOrder ==
  /\ [][(\/ RefreshCommand
         \/ LoadStep
         \/ WatcherDelete
         \/ \E query \in Queries : Search(query)
         \/ ClearSearch) =>
           /\ manualSortOrder' = manualSortOrder
           /\ savedSortOrder' = savedSortOrder]_vars
  /\ [](Displayed = IdsOf(ApplySortOrder(FilterItems(items, searchQuery), PresentOrder)))

\* a reload brought a list without an id that holds a position, and the rows
\* left are not in natural order
C13_Witness ==
  /\ last.op \in {"CliLoaded", "FileLoaded"}
  /\ \E id \in Positioned : id \notin SeqIds(items)
  /\ Len(Displayed) >= 2
  /\ ~Ascending(Displayed)

\* the exact value of a numeral of digit characters, as a binary numeral
ExactBits(part) == BitsOf([i \in 1..Len(part) |-> DigitVal(part[i])])

IsNumeral(part) == part # <<>> /\ Head(part) \in DigitChars

\* a and b have the same non-digit runs, and the first embedded number in
\* which they differ is smaller in a
SmallerNumber(a, b) ==
  LET ap == SplitDigits(a)
      bp == SplitDigits(b)
  IN /\ Len(ap) = Len(bp)
     /\ \A i \in 1..Len(ap) : IsNumeral(ap[i]) <=> IsNumeral(bp[i])
     /\ \A i \in 1..Len(ap) : ~IsNumeral(ap[i]) => ap[i] = bp[i]
     /\ \E i \in 1..Len(ap) :
          /\ IsNumeral(ap[i])
          /\ CompareBits(ExactBits(ap[i]), ExactBits(bp[i])) < 0
          /\ \A j \in 1..(i - 1) :
               IsNumeral(ap[j]) => ExactBits(ap[j]) = ExactBits(bp[j])

\* C14: of two ids with the same non-digit runs, naturalSort puts the one with
\* the smaller embedded number first, and so does the list of every load
C14_NaturalOrder ==
  (calc.fn = "sort" /\ calc.done) =>
    \A i, j \in 1..Len(calc.out) :
       SmallerNumber(calc.out[i], calc.out[j]) =>
          /\ NaturalSort(calc.out[i], calc.out[j]) < 0
          /\ i < j

\* C15: for every input record normalizeBead returns an issue whose id and
\* title are not empty
C15_NormalizedIdAndTitle ==
  (calc.fn = "normalizeBead" /\ calc.done) =>
     /\ calc.out.id # <<>>
     /\ calc.out.title # <<>>

\* C16: the ids of one loaded issue set are pairwise distinct
C16_LoadedIdsDistinct ==
  (calc.fn = "loadBeads" /\ calc.done) =>
     \A i, j \in 1..Len(calc.out) : i # j => calc.out[i] # calc.out[j]

\* the raw external reference of the record normalized
RawRef == calc.in.entry.f["external_ref"]

\* C17: the external reference is split at its first ':' only: the id is the
\* text before it, the description all the text after it; without ':' the id
\* is the whole string and there is no description
C17_ExternalRefFirstColon ==
  (calc.fn = "normalizeBead" /\ calc.done /\ RawRef.t = "string" /\ RawRef.v # <<>>) =>
     LET raw == RawRef.v
         colons == {i \in 1..Len(raw) : raw[i] = ":"}
         first == CHOOSE i \in colons : \A j \in colons : i <= j
     IN IF colons = {}
        THEN /\ calc.out.externalReferenceId = Some(raw)
             /\ calc.out.externalReferenceDescription = Undefined
        ELSE /\ calc.out.externalReferenceId = Some(SubSeq(raw, 1, first - 1))
             /\ calc.out.externalReferenceDescription =
                   Some(SubSeq(raw, first + 1, Len(raw)))

\* the entries of `levels` that came from the queue
FromQueue == {i \in 1..Len(calc.placed) : calc.placed[i].via # Off}

LevelOf(n) == calc.placed[CHOOSE i \in 1..Len(calc.placed) : calc.placed[i].node = n].level

\* the nodes with the fewest outgoing edges
MinOutNodes(g) ==
  {n \in g.nodes : \A m \in g.nodes : OutDegree(g, n) <= OutDegree(g, m)}

\* the chain 1 -> 2 -> 3: 1 depends on 2, 2 depends on 3
IsChain(g) ==
  /\ g.nodes = {1, 2, 3}
  /\ g.edges = <<[from |-> 1, to |-> 2], [from |-> 2, to |-> 3]>>

C19_LayoutTerminates ==
  /\ <>(calc.fn = "calculateLayout" /\ calc.done)
  /\ []((calc.fn = "calculateLayout" /\ calc.done) =>
          \A n \in calc.in.nodes :
             /\ \E i \in 1..Len(calc.placed) : calc.placed[i].node = n
             /\ \A i, j \in 1..Len(calc.placed) :
                  (calc.placed[i].node = n /\ calc.placed[j].node = n) =>
                     calc.placed[i].level = calc.placed[j].level
             /\ LevelOf(n) \in 0..Cardinality(calc.in.nodes)
             /\ calc.out[n] # NoPos)

\* the layout of a graph with a self-edge, an edge to an id without node and
\* a node that the traversal did not reach is done
C19_Witness ==
  /\ calc.fn = "calculateLayout" /\ calc.done
  /\ \E i \in 1..Len(calc.placed) : calc.placed[i].via = Off
  /\ \E k \in 1..Len(calc.in.edges) : calc.in.edges[k].to = calc.in.edges[k].from
  /\ \E k \in 1..Len(calc.in.edges) : calc.in.edges[k].to \notin calc.in.nodes

\* C20: after mousedown, mousemove*, mouseup, click on a node: a gesture that
\* moved more than 5 px from the press point has repositioned the node and
\* persisted the positions once and has sent no openBead request; a gesture
\* that never did has sent exactly one openBead request and has neither moved
\* the node nor persisted positions
C20_DragOrClick ==
  (calc.fn = "gesture" /\ calc.pc = "clicked") =>
     IF calc.far
     THEN calc.sets > 0 /\ calc.saves = 1 /\ calc.opens = 0
     ELSE calc.opens = 1 /\ calc.sets = 0 /\ calc.saves = 0

\* the level of node n of graph g in `levels`
LevelIn(g, n) == Levels(g)[CHOOSE i \in 1..Len(Levels(g)) : Levels(g)[i].node = n].level

\* the rank of node n within its level by the number of its id
RankIn(g, n) == Cardinality({m \in g.nodes : LevelIn(g, m) = LevelIn(g, n) /\ m < n})

\* C21: a node dragged and released has its position in the persisted
\* webview state, and every render that starts from that state shows it at
\* this position, until autoLayout runs; reloads of the data change neither
C21_DraggedPositionStable ==
  calc.fn = "graphView" =>
    \A n \in calc.released :
       /\ calc.state.defined
       /\ calc.state.nodePositions[n] = calc.dropped[n]
       /\ (calc.pc = "ready" /\ ~(calc.draggedNodeId = n /\ calc.isDragging))
             => calc.nodePositions[n] = calc.dropped[n]

\* the script started from a state that holds the position of a released
\* node, which is not the computed one, after the data was reloaded
C21_Witness ==
  /\ calc.fn = "graphView" /\ calc.pc = "ready" /\ Len(items) > 0
  /\ \E n \in calc.released :
        /\ calc.savedPositions[n] = calc.dropped[n]
        /\ calc.nodePositions[n] = calc.dropped[n]
        /\ calc.dropped[n] # CalculateLayout(calc.in, NoPositions, NoPositions)[n]

\* C22: right after autoLayout the webview state and savedPositions hold no
\* position and every node is at x = 100 + index * 250, y = 100 + level * 120,
\* index being its rank within its level by the number of its id
C22_AutoLayoutComputed ==
  (calc.fn = "graphView" /\ calc.fresh) =>
     /\ calc.state = SavePositions(NoPositions)
     /\ calc.savedPositions = NoPositions
     /\ \A n \in calc.in.nodes :
           calc.nodePositions[n] = [x |-> 100 + RankIn(calc.in, n) * 250,
                                    y |-> 100 + LevelIn(calc.in, n) * 120]

\* the options of the resolution order, in order: the explicit path, the bare
\* name, the install locations
Options(in) ==
  (IF IsExplicit(in.configPath) THEN <<in.configPath>> ELSE <<>>) \o <<"bd">> \o CommonPaths

Usable(in, p) == IF p = "bd" THEN in.onPath ELSE p \in in.exists

\* C23: findBdCommand returns the first usable option of the order explicit
\* path, bd on PATH, install locations, and fails only when none is usable
C23_FirstUsableCommand ==
  (calc.fn = "findBdCommand" /\ calc.done) =>
     LET opts == Options(calc.in)
         usable == {i \in 1..Len(opts) : Usable(calc.in, opts[i])}
     IN IF usable = {} THEN ~calc.out.ok
        ELSE /\ calc.out.ok
             /\ calc.out.path = opts[CHOOSE i \in usable : \A j \in usable : i <= j]

\* C24: in whichever form a sequence of records arrives (lines or one array
\* on stdout; JSONL, array, beads or project.beads in the file), the load
\* gives the records normalized and naturally sorted
C24_SameLoadInEveryForm ==
  (calc.fn = "loadForm" /\ calc.done) => calc.out = LoadResult(calc.in.records)

\* the external reference that normalizeBead reads from a record
ReferenceOf(record) == PickFirstKey(record, ExternalRefKeys).value

\* the file is in the form saveBeadsDocument gives it by its name, one record
\* a line or one JSON value, and ends with a newline
SameFormat ==
  /\ calc.lines[Len(calc.lines)] = <<>>
  /\ IF calc.isJsonl
     THEN \A i \in 1..(Len(calc.lines) - 1) :
             Len(calc.lines[i]) = 1 /\ calc.lines[i][1].tok = "value"
     ELSE JsonParse(Concat(calc.lines)).ok

\* C25: after updateExternalReference has set the external reference of a
\* record, saved and reloaded, the reloaded record carries the value set,
\* the other records are as they were, and the file is still in the format
\* of its name and ends with a newline
C25_ExternalReferenceRoundTrip ==
  (calc.fn = "roundTrip" /\ calc.pc = "reloaded") =>
     LET beads == calc.document.root.elems
     IN /\ Len(beads) = Len(calc.before)
        /\ ReferenceOf(beads[calc.target]) = Some(calc.value)
        /\ \A i \in 1..Len(beads) : i # calc.target => beads[i] = calc.before[i]
        /\ SameFormat

\* C26: a mutation handler shows its success message only when a load that
\* read the data source after the bd command has been applied: the document
\* in memory is then of the revision the command produced
C26_SuccessAfterReload ==
  InfoMutation \in Range(last.out) =>
     /\ last.op \in {"CliLoaded", "FileLoaded"}
     /\ document.rev = store.rev

\* the value of the first key of the list that the record has with a value
\* other than null, if there is one
Resolved(entry, keys) ==
  LET hits == {i \in 1..Len(keys) : entry.kind = "object"
                                     /\ entry.f[keys[i]].t \notin {"absent", "null"}}
  IN IF hits = {} THEN Undefined
     ELSE Some(entry.f[keys[CHOOSE i \in hits : \A j \in hits : i <= j]].v)

LoadCompletes == last'.op \in {"CliLoaded", "FileLoaded", "LoadFailed"}

\* C28: the coordinator is Idle, Loading or LoadingWithPending (pendingRefresh
\* is never set while refreshInProgress is not); a refresh() call that arrives
\* while a load is in flight starts no load and is recorded; when the load
\* completes exactly one load starts if calls were recorded, however many, and
\* none otherwise
C28_CoordinatorStates ==
  /\ [](/\ pendingRefresh => refreshInProgress
        /\ refreshInProgress <=> Cardinality(InFlight) = 1
        /\ pendingRefresh <=> last.deferred >= 1)
  /\ [][(refreshInProgress /\ ~LoadCompletes /\ last'.refreshCalls >= 1) =>
           (last'.loadCalls = 0 /\ loads' = loads /\ pendingRefresh')]_vars
  /\ [][LoadCompletes =>
           (/\ last'.loadCalls = IF last.deferred >= 1 THEN 1 ELSE 0
            /\ ~pendingRefresh')]_vars

\* a load completed after two or more refresh() calls had been recorded, and
\* one load was started
C28_Witness ==
  /\ last.op \in {"CliLoaded", "FileLoaded", "LoadFailed"}
  /\ last.coalesced = MaxDeferred
  /\ last.loadCalls = 1
  /\ Cardinality(InFlight) = 1

\* C29: every completion of a load, successful or failed, fires
\* onDidChangeTreeData, so that the tree is asked for its children again; the
\* detail panels get new content only when the load succeeded
C29_CompletionFires ==
  [][LoadCompletes =>
       (/\ treeDirty'
        /\ last'.op = "LoadFailed" => panels' = panels)]_vars

\* C30: the rows getChildren returns are the filtered issues: first those
\* with a manual entry, by ascending position, then those without, in their
\* natural order; no issue is lost or repeated, and the overlay applied to
\* its own result with the same map changes nothing
C30_OverlayOrder ==
  LET input == FilterItems(items, searchQuery)
      out == ApplySortOrder(input, manualSortOrder)
      n == Cardinality(Range(IdsOf(input)) \cap Positioned)
  IN /\ Displayed = IdsOf(out)
     /\ \A i \in 1..Len(out) : (i <= n) <=> (out[i].id \in Positioned)
     /\ \A i, j \in 1..n : i < j => manualSortOrder[out[i].id] <= manualSortOrder[out[j].id]
     /\ \A i, j \in (n + 1)..Len(out) : i < j => out[i].id < out[j].id
     /\ Len(out) = Len(input)
     /\ \A k \in 1..Len(input) : \E i \in 1..Len(out) : out[i] = input[k]
     /\ ApplySortOrder(out, manualSortOrder) = out

\* rows with and without manual entry are shown, the former not in the
\* order of their ids
C30_Witness ==
  /\ \E i \in 1..Len(Displayed) : Displayed[i] \notin Positioned
  /\ \E i, j \in 1..Len(Displayed) :
        /\ i < j /\ Displayed[i] > Displayed[j]
        /\ Displayed[i] \in Positioned /\ Displayed[j] \in Positioned

\* two ids whose runs all tie: the same number of parts, the same text runs,
\* digit runs of the same exact value
TieOnEveryRun(a, b) ==
  LET ap == SplitDigits(a)
      bp == SplitDigits(b)
  IN /\ Len(ap) = Len(bp)
     /\ \A i \in 1..Len(ap) : IsNumeral(ap[i]) <=> IsNumeral(bp[i])
     /\ \A i \in 1..Len(ap) : ~IsNumeral(ap[i]) => ap[i] = bp[i]
     /\ \A i \in 1..Len(ap) : IsNumeral(ap[i]) => ExactBits(ap[i]) = ExactBits(bp[i])

\* C31: naturalSort never returns 0 for two different ids, and of two
\* different ids that tie on every run the shorter one is first in the
\* sorted list
C31_DistinctIdsNeverTie ==
  (calc.fn = "sort" /\ calc.done) =>
    \A i, j \in 1..Len(calc.out) :
       (i < j /\ calc.out[i] # calc.out[j]) =>
          /\ NaturalSort(calc.out[i], calc.out[j]) # 0
          /\ TieOnEveryRun(calc.out[i], calc.out[j]) =>
                Len(calc.out[i]) < Len(calc.out[j])

\* how often node n has been pushed to the queue or to a level so far
Occurrences(n) ==
  Cardinality({i \in 1..Len(calc.queue) : calc.queue[i].node = n})
    + Cardinality({i \in 1..Len(calc.placed) : calc.placed[i].node = n})

\* C32: calculateLayout enqueues every node at most once, for any edge list,
\* and when it is done every node is in exactly one level, once
C32_NoNodeRevisited ==
  calc.fn = "calculateLayout" =>
    /\ \A n \in calc.in.nodes : Occurrences(n) <= 1
    /\ calc.done => \A n \in calc.in.nodes : Occurrences(n) = 1

\* the entries of `levels` that the pass over the unvisited nodes appended
Unreached == {i \in 1..Len(calc.placed) : calc.placed[i].via = Off}

\* C33: every node the traversal did not reach is appended to the level one
\* past the greatest level that exists when it is appended, so it lies
\* below every level of the traversal
C33_UnreachedBelow ==
  (calc.fn = "calculateLayout" /\ calc.done) =>
    \A i \in Unreached :
       /\ i > 1
       /\ \E k \in 1..(i - 1) : calc.placed[i].level = calc.placed[k].level + 1
       /\ \A k \in 1..(i - 1) : calc.placed[k].level < calc.placed[i].level
       /\ \A k \in FromQueue : calc.placed[k].level < calc.placed[i].level
       /\ calc.placed[i].node \notin calc.visited

\* a layout in which the traversal left two nodes unreached
C33_Witness ==
  /\ calc.fn = "calculateLayout" /\ calc.done
  /\ Cardinality(Unreached) >= 2
  /\ FromQueue # {}

\* C40: in the layout of a graph without cycle whose edge targets are all
\* nodes, every issue is on a greater level than each issue it depends on
C40_DependencyAbove ==
  (calc.fn = "calculateLayout" /\ calc.done) =>
    \A k \in 1..Len(calc.in.edges) :
       LevelOf(calc.in.edges[k].from) > LevelOf(calc.in.edges[k].to)

\* C34: the issue list in memory changes only by being replaced as a whole
\* by a load: the records of one load are never changed in place, and when
\* the save of updateExternalReference fails they are as before the call
C34_WholesaleReplacement ==
  [][calc.fn = "roundTrip" =>
       /\ calc'.document.gen = calc.document.gen =>
             calc'.document.root = calc.document.root
       /\ calc'.pc = "failed" => calc'.document.root.elems = calc'.before]_vars

\* the record of the issue in the data file as it is now
RecordInFile(i) == ReadBeadsDocument(calc.isJsonl, calc.lines).beads[i]

\* C37: when updateExternalReference has saved without an error message,
\* the data file holds the new value for the issue of the item, also when
\* a refresh replaced list and document after the item was handed over
C37_SavedFileHoldsValue ==
  (calc.fn = "roundTrip" /\ calc.pc = "saved") =>
     ReferenceOf(RecordInFile(calc.target)) = Some(calc.value)

\* the open panels whose issue is not in the list
StalePanels(list) == {p \in OpenPanelIds : panels[p].bead \notin SeqIds(list)}

\* C35: a successful load whose list lacks the issue of an open panel
\* leaves that panel's content and state and the registry as they were, and
\* after every successful load the registered panel of an issue that is in
\* the list shows that list, also when the issue was missing before
C35_StalePanelKept ==
  /\ [][LoadApplies =>
          /\ \A p \in StalePanels(items') : panels'[p] = panels[p]
          /\ openPanels' = openPanels]_vars
  /\ [](last.op \in {"CliLoaded", "FileLoaded"} =>
          \A id \in IssueIds :
             (openPanels[id] # 0 /\ id \in SeqIds(items)) =>
                panels[openPanels[id]].html = DetailHtml(ItemById(items, id), items))

\* a load has been applied whose list lacks the issue of a registered open
\* panel, which shows the issue as it was
C35_Witness ==
  /\ last.op \in {"CliLoaded", "FileLoaded"}
  /\ \E p \in StalePanels(items) :
        /\ openPanels[panels[p].bead] = p
        /\ panels[p].html.item.id = panels[p].bead

\* refresh() is not running and no load is in flight
Idle == ~refreshInProgress /\ ~pendingRefresh /\ InFlight = {}

\* C36: once a load has returned no issue and no command, watcher event or
\* mutation follows, the coordinator becomes Idle and stays Idle: the tree
\* view asking for its rows starts no further loads without end
C36_EmptyProjectQuiesces ==
  []((last.op \in {"CliLoaded", "FileLoaded"} /\ items = <<>>) => <>[]Idle)

\* C38: after onDidDelete the list stays empty until a load started after
\* the deletion completes: a load that was in flight when the deletion was
\* handled, when it is applied, leaves the list empty
C38_DeletionNotOvertaken ==
  [][(last.staleLoad /\ LoadApplies) => items' = <<>>]_vars

\* C39: the graph and the detail view resolve the same target from every
\* dependency record: the graph has the edge x -> y exactly when y is listed
\* under "Depends On" of x and x under "Blocks" of y
C39_SameTargetInBothViews ==
  (calc.fn = "dependencies" /\ calc.done) =>
    \A x, y \in DepIssues :
       LET edge == [from |-> x, to |-> y] \in calc.out.edges
       IN /\ edge <=> y \in calc.out.dependsOn[x]
          /\ edge <=> x \in calc.out.blocks[y]

====
